---- MODULE Spec2Model ----
(***************************************************************************)
(* A model of async-ffmpeg-sidecar's log pipeline:                         *)
(*   - FfmpegMetadata (src/src/metadata.rs), the aggregate folded from     *)
(*     events by handle_event;                                             *)
(*   - FfmpegLogParser (src/src/log_parser.rs), the line classifier and    *)
(*     its section tracker;                                                *)
(*   - FfmpegEventStream (src/src/stream.rs), the pull adapter poll_next.  *)
(*                                                                         *)
(* Text is a sequence of tokens: each token is a literal piece of the      *)
(* line, the line is their concatenation.  strip_prefix, trim and contains *)
(* act on tokens.  An Option<T> is a set holding at most one element.      *)
(***************************************************************************)
EXTENDS Integers, Sequences, FiniteSets, TLC

VARIABLES
  metadata,     \* FfmpegEventStream.metadata / the FfmpegMetadata under test
  cur_section,  \* FfmpegLogParser.cur_section
  transcript,   \* the lines the source delivers, in order (line-level source)
  pos,          \* number of lines of the transcript the reader has handed out
  wire,         \* the chunks of bytes the process writes to stderr (byte source)
  written,      \* number of chunks of `wire` already written to the pipe
  rd,           \* number of chunks the reader has consumed from the pipe
  lines_bytes,  \* tokio Lines: the partial line kept across Pending polls
  closed,       \* the write end of the pipe is closed
  parsed,       \* what the last parse_next_event call returned
  polled,       \* what the last poll_next call returned
  yielded,      \* the events poll_next has yielded so far, in order
  fed,          \* the events handed directly to handle_event, in order
  ret,          \* what the last direct handle_event call returned
  collect_metadata, \* the collect_metadata call: not made, running, or its result
  event_queue,  \* collect_metadata's local event_queue while the call runs
  extracted,    \* the last direct call of an extractor: its name, input and result
  child         \* FfmpegChild: its stdio handles, and what its calls did

vars == <<metadata, cur_section, transcript, pos, wire, written, rd,
          lines_bytes, closed, parsed, polled, yielded, fed, ret,
          collect_metadata, event_queue,
                 extracted, child>>

(***************************************************************************)
(* Bounds of the model.                                                    *)
(***************************************************************************)
MaxCalls == 5
MaxLines == 2
MaxChunks == 4
MaxOps == 4

None == {}
Some(x) == {x}
Unwrap(o) == CHOOSE x \in o : TRUE
Last(s) == s[Len(s)]

(***************************************************************************)
(* Events (crate::event::FfmpegEvent, as used by metadata.rs, stream.rs    *)
(* and log_parser.rs).  Every payload keeps the raw line it came from.     *)
(***************************************************************************)
FfmpegInput(index, raw) == [index |-> index, duration |-> None, raw_log_message |-> raw]
FfmpegOutput(index, to, raw) == [index |-> index, to |-> to, raw_log_message |-> raw]
FfmpegDuration(input_index, duration, raw) ==
  [input_index |-> input_index, duration |-> duration, raw_log_message |-> raw]
FfmpegStream(parent_index, stream_index, raw) ==
  [parent_index |-> parent_index, stream_index |-> stream_index, raw_log_message |-> raw]

ParsedVersion(raw) == [kind |-> "ParsedVersion", raw |-> raw]
ParsedConfiguration(raw) == [kind |-> "ParsedConfiguration", raw |-> raw]
ParsedStreamMapping(raw) == [kind |-> "ParsedStreamMapping", raw |-> raw]
ParsedInput(input) == [kind |-> "ParsedInput", input |-> input, raw |-> input.raw_log_message]
ParsedOutput(output) == [kind |-> "ParsedOutput", output |-> output, raw |-> output.raw_log_message]
\* Mutant: the event of an input stream made as that of an output stream.
ParsedInputStream_AsOutput(s) ==
  [kind |-> "ParsedOutputStream", stream |-> s, raw |-> s.raw_log_message]

ParsedInputStream(s) == [kind |-> "ParsedInputStream", stream |-> s, raw |-> s.raw_log_message]
ParsedOutputStream(s) == [kind |-> "ParsedOutputStream", stream |-> s, raw |-> s.raw_log_message]
ParsedDuration(d) == [kind |-> "ParsedDuration", duration |-> d, raw |-> d.raw_log_message]
Progress(p) == [kind |-> "Progress", progress |-> p, raw |-> p.raw_log_message]
Log(level, raw) == [kind |-> "Log", level |-> level, raw |-> raw]
Error(raw) == [kind |-> "Error", raw |-> raw]
LogEOF == [kind |-> "LogEOF", raw |-> <<>>]

(***************************************************************************)
(* FfmpegMetadata.                                                         *)
(***************************************************************************)
MetadataNew ==
  [expected_output_streams |-> 0,
   outputs |-> <<>>,
   output_streams |-> <<>>,
   inputs |-> <<>>,
   input_streams |-> <<>>,
   completed |-> FALSE]

is_completed(m) == m.completed

\* duration(): self.inputs[0].duration; indexing an empty vector panics.
duration(m) ==
  IF Len(m.inputs) = 0 THEN [ret |-> "panic"]
  ELSE [ret |-> "ok", value |-> m.inputs[1].duration]

\* Mutant of the match of handle_event: an Input descriptor is also counted
\* as an expected output stream.
ApplyEvent_InputCounted(m, item) ==
  CASE item.kind = "ParsedStreamMapping" ->
         [m EXCEPT !.expected_output_streams = @ + 1]
    [] item.kind = "ParsedInput" ->
         [m EXCEPT !.inputs = Append(@, item.input), !.expected_output_streams = @ + 1]
    [] item.kind = "ParsedOutput" ->
         [m EXCEPT !.outputs = Append(@, item.output)]
    [] item.kind = "ParsedDuration" ->
         [m EXCEPT !.inputs[item.duration.input_index + 1].duration =
                     Some(item.duration.duration)]
    [] item.kind = "ParsedOutputStream" ->
         [m EXCEPT !.output_streams = Append(@, item.stream)]
    [] item.kind = "ParsedInputStream" ->
         [m EXCEPT !.input_streams = Append(@, item.stream)]
    [] OTHER -> m

\* Mutant of the update: an input pushed at the front of the list.
ApplyEvent_Prepend(m, item) ==
  CASE item.kind = "ParsedStreamMapping" ->
         [m EXCEPT !.expected_output_streams = @ + 1]
    [] item.kind = "ParsedInput" ->
         [m EXCEPT !.inputs = <<item.input>> \o @]
    [] item.kind = "ParsedOutput" ->
         [m EXCEPT !.outputs = Append(@, item.output)]
    [] item.kind = "ParsedDuration" ->
         [m EXCEPT !.inputs[item.duration.input_index + 1].duration =
                     Some(item.duration.duration)]
    [] item.kind = "ParsedOutputStream" ->
         [m EXCEPT !.output_streams = Append(@, item.stream)]
    [] item.kind = "ParsedInputStream" ->
         [m EXCEPT !.input_streams = Append(@, item.stream)]
    [] OTHER -> m

\* The match of handle_event: the aggregate after the arm of `item` has run.
\* Only called when the arm does not panic.
ApplyEvent(m, item) ==
  CASE item.kind = "ParsedStreamMapping" ->
         [m EXCEPT !.expected_output_streams = @ + 1]
    [] item.kind = "ParsedInput" ->
         [m EXCEPT !.inputs = Append(@, item.input)]
    [] item.kind = "ParsedOutput" ->
         [m EXCEPT !.outputs = Append(@, item.output)]
    [] item.kind = "ParsedDuration" ->
         [m EXCEPT !.inputs[item.duration.input_index + 1].duration =
                     Some(item.duration.duration)]
    [] item.kind = "ParsedOutputStream" ->
         [m EXCEPT !.output_streams = Append(@, item.stream)]
    [] item.kind = "ParsedInputStream" ->
         [m EXCEPT !.input_streams = Append(@, item.stream)]
    [] OTHER -> m

\* self.inputs[duration.input_index as usize]: the index is a position in the
\* vector, and indexing past its end panics.
IndexPanics(m, item) ==
  /\ item.kind = "ParsedDuration"
  /\ item.duration.input_index >= Len(m.inputs)

\* Mutants of the completion check: ">=" for "==", and a count that is one short.
MarkCompleted_AtLeast(m) ==
  IF m.expected_output_streams > 0 /\ Len(m.output_streams) >= m.expected_output_streams
  THEN [m EXCEPT !.completed = TRUE]
  ELSE m

MarkCompleted_OneShort(m) ==
  IF m.expected_output_streams > 0 /\ Len(m.output_streams) + 1 >= m.expected_output_streams
  THEN [m EXCEPT !.completed = TRUE]
  ELSE m

\* The completion check that ends handle_event.
MarkCompleted(m) ==
  IF m.expected_output_streams > 0 /\ Len(m.output_streams) = m.expected_output_streams
  THEN [m EXCEPT !.completed = TRUE]
  ELSE m

\* Mutants of handle_event: without the guard on completion; and with the
\* guard failing silently.
handle_event_NoGuard(m, item) ==
  IF IndexPanics(m, item) THEN [metadata |-> m, ret |-> "panic"]
  ELSE [metadata |-> MarkCompleted(ApplyEvent(m, item)), ret |-> "ok"]

handle_event_LateGuard(m, item) ==
  IF IndexPanics(m, item) THEN [metadata |-> m, ret |-> "panic"]
  ELSE IF is_completed(m) THEN [metadata |-> ApplyEvent(m, item), ret |-> "err"]
  ELSE [metadata |-> MarkCompleted(ApplyEvent(m, item)), ret |-> "ok"]

\* handle_event: the aggregate after the call and what the call did:
\* "ok" (Ok(())), "err" (the bail!) or "panic" (the thread unwinds).
handle_event(m, item) ==
  IF is_completed(m) THEN [metadata |-> m, ret |-> "err"]
  ELSE IF IndexPanics(m, item) THEN [metadata |-> m, ret |-> "panic"]
  ELSE [metadata |-> MarkCompleted(ApplyEvent(m, item)), ret |-> "ok"]

(***************************************************************************)
(* Text helpers: the str methods the extractors use, on token sequences.   *)
(***************************************************************************)
CR == "<CR>"
LF == "<LF>"
Whitespace == {" ", "  ", CR, LF}
IsWs(t) == t \in Whitespace

\* The numeric tokens and the number each parses to (seconds and indices are
\* whole numbers here).
NumOf ==
  ("0" :> 0) @@ ("1" :> 1) @@ ("2" :> 2) @@ ("3" :> 3) @@ ("5" :> 5) @@
  ("00" :> 0) @@ ("01" :> 1) @@ ("05" :> 5) @@ ("10" :> 10) @@ ("-1.0" :> (0 - 1))

\* Mutant: text that is no number parsed as 0.
ParseNum_OrZero(w) == IF Len(w) = 1 /\ w[1] \in DOMAIN NumOf THEN Some(NumOf[w[1]]) ELSE Some(0)

\* str::parse::<u32>() / parse::<f32>() / parse::<f64>() of a piece of text.
ParseNum(w) == IF Len(w) = 1 /\ w[1] \in DOMAIN NumOf THEN Some(NumOf[w[1]]) ELSE None
ParseU32(w) == IF ParseNum(w) # None /\ Unwrap(ParseNum(w)) >= 0 THEN ParseNum(w) ELSE None

\* Index of the first token of s in `set`, Len(s) + 1 when there is none.
IndexOf(s, set) ==
  IF \E i \in DOMAIN s : s[i] \in set
  THEN CHOOSE i \in DOMAIN s : s[i] \in set /\ \A j \in 1..(i - 1) : s[j] \notin set
  ELSE Len(s) + 1

Before(s, set) == SubSeq(s, 1, IndexOf(s, set) - 1)
After(s, set) == SubSeq(s, IndexOf(s, set) + 1, Len(s))
\* Mutant: the text looked for at the start only.
contains_AtStart(s, tok) == s # <<>> /\ s[1] = tok

contains(s, tok) == \E i \in DOMAIN s : s[i] = tok

RECURSIVE trim_start(_)
trim_start(s) == IF s # <<>> /\ IsWs(Head(s)) THEN trim_start(Tail(s)) ELSE s

RECURSIVE trim_end(_)
trim_end(s) ==
  IF s # <<>> /\ IsWs(s[Len(s)]) THEN trim_end(SubSeq(s, 1, Len(s) - 1)) ELSE s

trim(s) == trim_end(trim_start(s))

\* str::strip_prefix(p): Some(rest) or None.
strip_prefix(s, p) == IF s # <<>> /\ Head(s) = p THEN Some(Tail(s)) ELSE None

\* Mutant: the tag left in place.
StripInfoTrim_NoStrip(s) == trim(s)

\* string.strip_prefix("[info]").unwrap_or(string).trim()
StripInfoTrim(s) ==
  trim(IF strip_prefix(s, "[info]") # None THEN Unwrap(strip_prefix(s, "[info]")) ELSE s)

\* s.split_whitespace().next(): the first run of non-whitespace tokens.
FirstWord(s) ==
  IF trim_start(s) = <<>> THEN None ELSE Some(Before(trim_start(s), Whitespace))

\* s.split(sep): the pieces between the separators.
RECURSIVE SplitOn(_, _)
SplitOn(s, seps) ==
  IF IndexOf(s, seps) > Len(s) THEN <<s>>
  ELSE <<Before(s, seps)>> \o SplitOn(After(s, seps), seps)

RECURSIVE Concat(_)
Concat(pieces) == IF pieces = <<>> THEN <<>> ELSE Head(pieces) \o Concat(Tail(pieces))

(***************************************************************************)
(* Field extractors (log_parser.rs).  Each returns an Option.              *)
(***************************************************************************)
\* The leading "<number>[,...]" after "Input #" / "Output #".
HeaderIndex(rest) ==
  IF FirstWord(rest) = None THEN None
  ELSE ParseU32(Before(Unwrap(FirstWord(rest)), {","}))

try_parse_version(line) ==
  LET rest == strip_prefix(StripInfoTrim(line), "ffmpeg version ")
  IN  IF rest = None THEN None ELSE FirstWord(Unwrap(rest))

try_parse_configuration(line) ==
  LET rest == strip_prefix(StripInfoTrim(line), "configuration: ")
  IN  IF rest = None THEN None
      ELSE Some(SelectSeq(Unwrap(rest), LAMBDA t : ~IsWs(t)))

try_parse_input(line) ==
  LET rest == strip_prefix(StripInfoTrim(line), "Input #")
  IN  IF rest = None THEN None ELSE HeaderIndex(Unwrap(rest))

try_parse_output(line) ==
  LET rest == strip_prefix(StripInfoTrim(line), "Output #")
  IN  IF rest = None \/ HeaderIndex(Unwrap(rest)) = None THEN None
      ELSE IF ~contains(Unwrap(rest), " to '") THEN None
      ELSE Some(FfmpegOutput(Unwrap(HeaderIndex(Unwrap(rest))),
                             Before(After(Unwrap(rest), {" to '"}), {"'"}),
                             line))

\* Mutant of parse_time_str: the components read from the left.
parse_time_str_FromLeft(s) ==
  LET smh == SplitOn(s, {":"})
      n == Len(smh)
      sec == ParseNum(smh[1])
      min == IF n >= 2 THEN ParseNum(smh[2]) ELSE Some(0)
      hrs == IF n >= 3 THEN ParseNum(smh[3]) ELSE Some(0)
  IN  IF sec = None \/ min = None \/ hrs = None THEN None
      ELSE Some(Unwrap(sec) + Unwrap(min) * 60 + Unwrap(hrs) * 60 * 60)

\* parse_time_str: the components are read from the right; only the last
\* three are looked at.
parse_time_str(s) ==
  LET smh == SplitOn(s, {":"})
      n == Len(smh)
      sec == ParseNum(smh[n])
      min == IF n >= 2 THEN ParseNum(smh[n - 1]) ELSE Some(0)
      hrs == IF n >= 3 THEN ParseNum(smh[n - 2]) ELSE Some(0)
  IN  IF sec = None \/ min = None \/ hrs = None THEN None
      ELSE Some(Unwrap(sec) + Unwrap(min) * 60 + Unwrap(hrs) * 60 * 60)

try_parse_duration(line) ==
  LET rest == strip_prefix(StripInfoTrim(line), "Duration:")
  IN  IF rest = None THEN None
      ELSE parse_time_str(Before(trim(Unwrap(rest)), {","}))

\* CommaIter::next: the text up to the first comma outside parentheses.
RECURSIVE TopLevelComma(_, _, _)
TopLevelComma(s, i, depth) ==
  IF i > Len(s) THEN i
  ELSE IF s[i] = "(" THEN TopLevelComma(s, i + 1, depth + 1)
  ELSE IF s[i] = ")" THEN TopLevelComma(s, i + 1, IF depth > 0 THEN depth - 1 ELSE 0)
  ELSE IF s[i] = "," /\ depth = 0 THEN i
  ELSE TopLevelComma(s, i + 1, depth)

CommaIterNext(s) == SubSeq(s, 1, TopLevelComma(s, 1, 0) - 1)
CommaIterRest(s) == SubSeq(s, TopLevelComma(s, 1, 0) + 1, Len(s))

\* .split(['[', ']']).step_by(2).collect(): the pieces outside the brackets.
StripBrackets(s) ==
  LET pieces == SplitOn(s, {"[", "]"})
  IN  Concat([k \in 1..((Len(pieces) + 1) \div 2) |-> pieces[2 * k - 1]])

\* try_parse_audio_stream / try_parse_video_stream: the payload fields that
\* follow the first comma; the well-formed ones are single tokens here.
AudioFields == "48000 Hz, stereo"
VideoFields == "yuv420p, 320x240, 25 fps"
TypeSpecificOk(stream_type, fields) ==
  CASE stream_type = <<"Audio">> -> contains(fields, AudioFields)
    [] stream_type = <<"Video">> -> contains(fields, VideoFields)
    [] OTHER -> TRUE

try_parse_stream(line) ==
  LET rest == strip_prefix(StripInfoTrim(line), "Stream #")
      s == Unwrap(rest)
      colon == SplitOn(CommaIterNext(s), {":"})
      parent_index == ParseU32(colon[1])
      stream_index == ParseU32(trim(Before(StripBrackets(colon[2]), {"("})))
  IN  IF rest = None THEN None
      ELSE IF parent_index = None THEN None
      ELSE IF Len(colon) < 2 \/ stream_index = None THEN None
      ELSE IF Len(colon) < 4 THEN None
      ELSE IF ~TypeSpecificOk(trim(colon[3]), CommaIterRest(s)) THEN None
      ELSE Some(FfmpegStream(Unwrap(parent_index), Unwrap(stream_index), line))

\* try_parse_progress: each key is searched by first occurrence; the value is
\* the word that follows it.
ValueAfter(s, keys) ==
  IF IndexOf(s, keys) > Len(s) THEN None ELSE FirstWord(After(s, keys))

\* Mutant: only the KiB suffix known.
SizeKb_KiBOnly(w) ==
  IF Last(w) = "KiB" THEN ParseU32(SubSeq(w, 1, Len(w) - 1))
  ELSE IF Last(w) = "N/A" THEN Some(0)
  ELSE None

SizeKb(w) ==
  IF Last(w) \in {"KiB", "kB"} THEN ParseU32(SubSeq(w, 1, Len(w) - 1))
  ELSE IF Last(w) = "N/A" THEN Some(0)
  ELSE None

OrZero(o) == IF o = None THEN 0 ELSE Unwrap(o)

try_parse_progress(line) ==
  LET s == StripInfoTrim(line)
      frame == ValueAfter(s, {"frame="})
      fps == ValueAfter(s, {"fps="})
      q == ValueAfter(s, {"q="})
      size == ValueAfter(s, {"size=", "Lsize="})
      time == ValueAfter(s, {"time="})
      bitrate == ValueAfter(s, {"bitrate="})
      speed == ValueAfter(s, {"speed="})
  IN  IF frame = None \/ ParseU32(Unwrap(frame)) = None THEN None
      ELSE IF fps = None \/ ParseNum(Unwrap(fps)) = None THEN None
      ELSE IF q = None \/ ParseNum(Unwrap(q)) = None THEN None
      ELSE IF size = None \/ SizeKb(Unwrap(size)) = None THEN None
      ELSE IF time = None \/ bitrate = None \/ speed = None THEN None
      ELSE Some([frame |-> Unwrap(ParseU32(Unwrap(frame))),
                 fps |-> Unwrap(ParseNum(Unwrap(fps))),
                 q |-> Unwrap(ParseNum(Unwrap(q))),
                 size_kb |-> Unwrap(SizeKb(Unwrap(size))),
                 time |-> Unwrap(time),
                 bitrate_kbps |->
                   OrZero(ParseNum(SelectSeq(Unwrap(bitrate), LAMBDA t : t # "kbits/s"))),
                 speed |->
                   IF Last(Unwrap(speed)) = "x"
                   THEN OrZero(ParseNum(SubSeq(Unwrap(speed), 1, Len(Unwrap(speed)) - 1)))
                   ELSE 0,
                 raw_log_message |-> line])

(***************************************************************************)
(* FfmpegLogParser: the section tracker and the classification chain.      *)
(***************************************************************************)
\* Mutant: every Input section that of input 0.
SectionInput_Zero(n) == [tag |-> "Input", index |-> 0]

SectionInput(n) == [tag |-> "Input", index |-> n]
\* Mutant: an Output header opening an Input section.
SectionOutput_AsInput(n) == [tag |-> "Input", index |-> n]

SectionOutput(n) == [tag |-> "Output", index |-> n]
SectionStreamMapping == [tag |-> "StreamMapping"]
SectionOther == [tag |-> "Other"]

UnexpectedStream == "Unexpected stream specification: "

Ok(section, event) == [section |-> section, ok |-> TRUE, event |-> event]
Err(section, msg) == [section |-> section, ok |-> FALSE, msg |-> msg]

\* line.contains("  Stream #")
ContainsIndentedStream(line) ==
  \E i \in 1..(Len(line) - 1) : line[i] = "  " /\ line[i + 1] = "Stream #"

\* Mutant of the chain: the stream specification tried before the
\* stream-mapping entry.
ParseChain_StreamBeforeMapping(section, line) ==
  IF try_parse_version(line) # None THEN Ok(section, ParsedVersion(line))
  ELSE IF try_parse_configuration(line) # None THEN Ok(section, ParsedConfiguration(line))
  ELSE IF try_parse_duration(line) # None THEN
    IF section.tag = "Input"
    THEN Ok(section, ParsedDuration(
           FfmpegDuration(section.index, Unwrap(try_parse_duration(line)), line)))
    ELSE Ok(section, Log("Info", line))
  ELSE IF try_parse_stream(line) # None THEN
    CASE section.tag = "Input" ->
           Ok(section, ParsedInputStream(Unwrap(try_parse_stream(line))))
      [] section.tag = "Output" ->
           Ok(section, ParsedOutputStream(Unwrap(try_parse_stream(line))))
      [] OTHER -> Err(section, <<UnexpectedStream>> \o line)
  ELSE IF section = SectionStreamMapping /\ ContainsIndentedStream(line)
    THEN Ok(section, ParsedStreamMapping(line))
  ELSE IF try_parse_progress(line) # None
    THEN Ok(SectionOther, Progress(Unwrap(try_parse_progress(line))))
  ELSE IF contains(line, "[info]") THEN Ok(section, Log("Info", line))
  ELSE IF contains(line, "[warning]") THEN Ok(section, Log("Warning", line))
  ELSE IF contains(line, "[error]") THEN Ok(section, Log("Error", line))
  ELSE IF contains(line, "[fatal]") THEN Ok(section, Log("Fatal", line))
  ELSE Ok(section, Log("Unknown", line))

\* Mutant of the chain: a Progress line that leaves the section as it was.
ParseChain_ProgressKeepsSection(section, line) ==
  IF try_parse_version(line) # None THEN Ok(section, ParsedVersion(line))
  ELSE IF try_parse_configuration(line) # None THEN Ok(section, ParsedConfiguration(line))
  ELSE IF try_parse_duration(line) # None THEN
    IF section.tag = "Input"
    THEN Ok(section, ParsedDuration(
           FfmpegDuration(section.index, Unwrap(try_parse_duration(line)), line)))
    ELSE Ok(section, Log("Info", line))
  ELSE IF section = SectionStreamMapping /\ ContainsIndentedStream(line)
    THEN Ok(section, ParsedStreamMapping(line))
  ELSE IF try_parse_stream(line) # None THEN
    CASE section.tag = "Input" ->
           Ok(section, ParsedInputStream(Unwrap(try_parse_stream(line))))
      [] section.tag = "Output" ->
           Ok(section, ParsedOutputStream(Unwrap(try_parse_stream(line))))
      [] OTHER -> Err(section, <<UnexpectedStream>> \o line)
  ELSE IF try_parse_progress(line) # None
    THEN Ok(section, Progress(Unwrap(try_parse_progress(line))))
  ELSE IF contains(line, "[info]") THEN Ok(section, Log("Info", line))
  ELSE IF contains(line, "[warning]") THEN Ok(section, Log("Warning", line))
  ELSE IF contains(line, "[error]") THEN Ok(section, Log("Error", line))
  ELSE IF contains(line, "[fatal]") THEN Ok(section, Log("Fatal", line))
  ELSE Ok(section, Log("Unknown", line))

\* The part of parse_next_event after the section tracking: the chain from
\* the version extractor down to the Unknown-level log, run in `section`.
ParseChain(section, line) ==
  IF try_parse_version(line) # None THEN Ok(section, ParsedVersion(line))
  ELSE IF try_parse_configuration(line) # None THEN Ok(section, ParsedConfiguration(line))
  ELSE IF try_parse_duration(line) # None THEN
    IF section.tag = "Input"
    THEN Ok(section, ParsedDuration(
           FfmpegDuration(section.index, Unwrap(try_parse_duration(line)), line)))
    ELSE Ok(section, Log("Info", line))
  ELSE IF section = SectionStreamMapping /\ ContainsIndentedStream(line)
    THEN Ok(section, ParsedStreamMapping(line))
  ELSE IF try_parse_stream(line) # None THEN
    CASE section.tag = "Input" ->
           Ok(section, ParsedInputStream(Unwrap(try_parse_stream(line))))
      [] section.tag = "Output" ->
           Ok(section, ParsedOutputStream(Unwrap(try_parse_stream(line))))
      [] OTHER -> Err(section, <<UnexpectedStream>> \o line)
  ELSE IF try_parse_progress(line) # None
    THEN Ok(SectionOther, Progress(Unwrap(try_parse_progress(line))))
  ELSE IF contains(line, "[info]") THEN Ok(section, Log("Info", line))
  ELSE IF contains(line, "[warning]") THEN Ok(section, Log("Warning", line))
  ELSE IF contains(line, "[error]") THEN Ok(section, Log("Error", line))
  ELSE IF contains(line, "[fatal]") THEN Ok(section, Log("Fatal", line))
  ELSE Ok(section, Log("Unknown", line))

\* Mutant of the section tracking: an Output header that leaves the section
\* as it was.
ClassifyLine_OutputKeepsSection(section, line) ==
  IF try_parse_input(line) # None THEN
    Ok(SectionInput(Unwrap(try_parse_input(line))),
       ParsedInput(FfmpegInput(Unwrap(try_parse_input(line)), line)))
  ELSE IF try_parse_output(line) # None THEN
    Ok(section, ParsedOutput(Unwrap(try_parse_output(line))))
  ELSE IF contains(line, "Stream mapping:") THEN ParseChain(SectionStreamMapping, line)
  ELSE ParseChain(section, line)

\* Mutant of the section tracking: the marker is not looked for.
ClassifyLine_MarkerIgnored(section, line) ==
  IF try_parse_input(line) # None THEN
    Ok(SectionInput(Unwrap(try_parse_input(line))),
       ParsedInput(FfmpegInput(Unwrap(try_parse_input(line)), line)))
  ELSE IF try_parse_output(line) # None THEN
    Ok(SectionOutput(Unwrap(try_parse_output(line)).index),
       ParsedOutput(Unwrap(try_parse_output(line))))
  ELSE ParseChain(section, line)

\* The section tracking that opens parse_next_event, then the chain.
ClassifyLine(section, line) ==
  IF try_parse_input(line) # None THEN
    Ok(SectionInput(Unwrap(try_parse_input(line))),
       ParsedInput(FfmpegInput(Unwrap(try_parse_input(line)), line)))
  ELSE IF try_parse_output(line) # None THEN
    Ok(SectionOutput(Unwrap(try_parse_output(line)).index),
       ParsedOutput(Unwrap(try_parse_output(line))))
  ELSE IF contains(line, "Stream mapping:") THEN ParseChain(SectionStreamMapping, line)
  ELSE ParseChain(section, line)

\* What self.lines.next_line().await gives once it is ready: a line, the end
\* of the source, or a read error (a line that is not UTF-8).
ReadLine(line) == [t |-> "line", line |-> line]
ReadEof == [t |-> "eof"]
ReadErr == [t |-> "err"]
InvalidUtf8 == <<"<invalid utf-8>">>
ReadErrMsg == <<"stream did not contain valid UTF-8">>

parse_next_event(section, read) ==
  CASE read.t = "err" -> Err(section, ReadErrMsg)
    [] read.t = "eof" -> Ok(section, LogEOF)
    [] OTHER -> ClassifyLine(section, read.line)

(***************************************************************************)
(* FfmpegEventStream::poll_next.                                           *)
(***************************************************************************)
NotPolled == [tag |-> "NotPolled"]
Pending == [tag |-> "Pending"]
Panicked == [tag |-> "Panic"]
Ready(item) == [tag |-> "Ready", item |-> item]

AlreadyCompleted == <<"Metadata is already completed">>
RanOut == "Stream ran out before metadata was gathered. The following errors occurred: "

\* Mutant of the tail of poll_next: the guard on completion inverted.
FeedAndYield_Inverted(section, m, item) ==
  IF is_completed(m) THEN
    LET h == handle_event(m, item)
    IN  CASE h.ret = "panic" ->
               [section |-> section, metadata |-> m, polled |-> Panicked]
          [] h.ret = "err" ->
               [section |-> section, metadata |-> h.metadata,
                polled |-> Ready(Some(Error(AlreadyCompleted)))]
          [] OTHER ->
               [section |-> section, metadata |-> h.metadata, polled |-> Ready(Some(item))]
  ELSE [section |-> section, metadata |-> m, polled |-> Ready(Some(item))]

\* Mutant of the tail of poll_next: the aggregate fed whether complete or not.
FeedAndYield_Unguarded(section, m, item) ==
  LET h == handle_event(m, item)
  IN  CASE h.ret = "panic" ->
             [section |-> section, metadata |-> m, polled |-> Panicked]
        [] h.ret = "err" ->
             [section |-> section, metadata |-> h.metadata,
              polled |-> Ready(Some(Error(AlreadyCompleted)))]
        [] OTHER ->
             [section |-> section, metadata |-> h.metadata, polled |-> Ready(Some(item))]

\* The tail of poll_next: feed the aggregate unless it is complete, then
\* yield the item.
FeedAndYield(section, m, item) ==
  IF ~is_completed(m) THEN
    LET h == handle_event(m, item)
    IN  CASE h.ret = "panic" ->
               [section |-> section, metadata |-> m, polled |-> Panicked]
          [] h.ret = "err" ->
               [section |-> section, metadata |-> h.metadata,
                polled |-> Ready(Some(Error(AlreadyCompleted)))]
          [] OTHER ->
               [section |-> section, metadata |-> h.metadata, polled |-> Ready(Some(item))]
  ELSE [section |-> section, metadata |-> m, polled |-> Ready(Some(item))]

\* Mutants of poll_next: the EOF event passed on like any other event; and a
\* parser error ending the sequence.
poll_next_YieldEof(section, m, read) ==
  LET r == parse_next_event(section, read)
  IN  IF ~r.ok
      THEN [section |-> r.section, metadata |-> m, polled |-> Ready(Some(Error(r.msg)))]
      ELSE FeedAndYield(r.section, m, r.event)

poll_next_EndOnError(section, m, read) ==
  LET r == parse_next_event(section, read)
  IN  IF ~r.ok
      THEN [section |-> r.section, metadata |-> m, polled |-> Ready(None)]
      ELSE IF r.event = LogEOF
      THEN [section |-> r.section, metadata |-> m, polled |-> Ready(None)]
      ELSE FeedAndYield(r.section, m, r.event)

\* poll_next once the read future is ready with `read`.
poll_next(section, m, read) ==
  LET r == parse_next_event(section, read)
  IN  IF ~r.ok
      THEN [section |-> r.section, metadata |-> m, polled |-> Ready(Some(Error(r.msg)))]
      ELSE IF r.event = LogEOF
      THEN [section |-> r.section, metadata |-> m, polled |-> Ready(None)]
      ELSE FeedAndYield(r.section, m, r.event)

(***************************************************************************)
(* FfmpegEventStream::collect_metadata: the loop pulls events into          *)
(* event_queue until the aggregate is complete or the sequence ends.       *)
(***************************************************************************)
NotCalled == [tag |-> "NotCalled"]
Running == [tag |-> "Running"]
Unwound == [tag |-> "Panic"]
Returned(m) == [tag |-> "Ok", metadata |-> m]
Bailed(errors) == [tag |-> "Err", msg |-> <<RanOut>> \o errors]

\* The filter_map(..).collect().join("") over event_queue: the texts of the
\* Error events and of the Error-level logs, concatenated.
RECURSIVE JoinErrors(_)
JoinErrors(queue) ==
  IF queue = <<>> THEN <<>>
  ELSE (IF Head(queue).kind = "Error"
           \/ (Head(queue).kind = "Log" /\ Head(queue).level = "Error")
        THEN Head(queue).raw ELSE <<>>) \o JoinErrors(Tail(queue))

\* Mutant of the loop: the aggregate returned as it is when the sequence has
\* ended.
CollectLoop_OkAtEnd(queue, m, event) ==
  IF event = Panicked THEN [call |-> Unwound, queue |-> queue]
  ELSE IF event.item = None THEN [call |-> Returned(m), queue |-> <<>>]
  ELSE IF is_completed(m) THEN [call |-> Returned(m), queue |-> <<>>]
  ELSE [call |-> Running, queue |-> Append(queue, Unwrap(event.item))]

\* One turn of the loop of collect_metadata, after self.next().await gave
\* `event` and left the aggregate as `m`: the call's state and its queue.
CollectLoop(queue, m, event) ==
  IF event = Panicked THEN [call |-> Unwound, queue |-> queue]
  ELSE IF event.item = None THEN [call |-> Bailed(JoinErrors(queue)), queue |-> <<>>]
  ELSE IF is_completed(m) THEN [call |-> Returned(m), queue |-> <<>>]
  ELSE [call |-> Running, queue |-> Append(queue, Unwrap(event.item))]

(***************************************************************************)
(* FfmpegChild (src/src/child.rs): the three stdio handles of the spawned  *)
(* process, each an Option that a call can take; the event streams made    *)
(* from it; the bytes written to its stdin; and what the last call did.    *)
(***************************************************************************)
NoCall == [op |-> "none"]

\* from_inner: the three channels are piped.
ChildNew ==
  [stdin |-> TRUE, stdout |-> TRUE, stderr |-> TRUE,
   streams |-> 0, stdin_bytes |-> <<>>, calls |-> 0, call |-> NoCall]

NoStderr == "no stderr channel"
MissingStdin == "Missing child stdin"
WriteFailed == "write_all failed"

\* self.inner.stderr.take() / self.inner.stdin.take()
take_stderr(c) ==
  [c EXCEPT !.stderr = FALSE, !.calls = @ + 1,
            !.call = [op |-> "take_stderr", ret |-> IF c.stderr THEN "some" ELSE "none"]]

take_stdin(c) ==
  [c EXCEPT !.stdin = FALSE, !.calls = @ + 1,
            !.call = [op |-> "take_stdin", ret |-> IF c.stdin THEN "some" ELSE "none"]]

\* stream() that hands out a stream whether or not stderr is still there.
stream_Always(c) ==
  [c EXCEPT !.stderr = FALSE, !.streams = @ + 1, !.calls = @ + 1,
            !.call = [op |-> "stream", ret |-> "ok"]]

\* stream(): FfmpegEventStream::new takes stderr, or fails when it is gone;
\* a new stream comes with a new aggregate.
stream(c) ==
  IF c.stderr
  THEN [c EXCEPT !.stderr = FALSE, !.streams = @ + 1, !.calls = @ + 1,
                 !.call = [op |-> "stream", ret |-> "ok"]]
  ELSE [c EXCEPT !.calls = @ + 1,
                 !.call = [op |-> "stream", ret |-> "err", msg |-> NoStderr]]

\* send_stdin_command that keeps the handle it took after a successful write.
SendCommand_NoReplace(c, op, command, write_ok) ==
  IF ~c.stdin
  THEN [c EXCEPT !.calls = @ + 1,
                 !.call = [op |-> op, ret |-> "err", msg |-> MissingStdin]]
  ELSE IF ~write_ok
  THEN [c EXCEPT !.stdin = FALSE, !.calls = @ + 1,
                 !.call = [op |-> op, ret |-> "err", msg |-> WriteFailed]]
  ELSE [c EXCEPT !.stdin = FALSE, !.stdin_bytes = @ \o command, !.calls = @ + 1,
                 !.call = [op |-> op, ret |-> "ok"]]

\* Mutant of SendCommand: the handle put back although write_all failed.
SendCommand_PutsBack(c, op, command, write_ok) ==
  IF ~c.stdin
  THEN [c EXCEPT !.calls = @ + 1,
                 !.call = [op |-> op, ret |-> "err", msg |-> MissingStdin]]
  ELSE IF ~write_ok
  THEN [c EXCEPT !.calls = @ + 1,
                 !.call = [op |-> op, ret |-> "err", msg |-> WriteFailed]]
  ELSE [c EXCEPT !.stdin_bytes = @ \o command, !.calls = @ + 1,
                 !.call = [op |-> op, ret |-> "ok"]]

\* send_stdin_command, named `op` by its caller: stdin is taken, the command
\* written, and the handle put back; when stdin is gone the call fails at
\* once, and when write_all fails the handle taken is dropped.
SendCommand(c, op, command, write_ok) ==
  IF ~c.stdin
  THEN [c EXCEPT !.calls = @ + 1,
                 !.call = [op |-> op, ret |-> "err", msg |-> MissingStdin]]
  ELSE IF ~write_ok
  THEN [c EXCEPT !.stdin = FALSE, !.calls = @ + 1,
                 !.call = [op |-> op, ret |-> "err", msg |-> WriteFailed]]
  ELSE [c EXCEPT !.stdin_bytes = @ \o command, !.calls = @ + 1,
                 !.call = [op |-> op, ret |-> "ok"]]

send_stdin_command(c, command, write_ok) ==
  SendCommand(c, "send_stdin_command", command, write_ok)

quit(c, write_ok) == SendCommand(c, "quit", <<"q">>, write_ok)

NotExtracted == [fn |-> "none"]

(***************************************************************************)
(* Direct use of the aggregate: a caller hands events to handle_event.     *)
(***************************************************************************)
Indices == 0..1
Seconds == 5
NoText == <<>>

AggEvents ==
  {ParsedStreamMapping(NoText), ParsedOutputStream(FfmpegStream(0, 0, NoText)),
   ParsedInputStream(FfmpegStream(0, 0, NoText)),
   ParsedOutput(FfmpegOutput(0, NoText, NoText)),
   ParsedVersion(NoText), ParsedConfiguration(NoText),
   Progress([raw_log_message |-> NoText]), Log("Info", NoText), Error(NoText), LogEOF}
  \cup {ParsedInput(FfmpegInput(i, NoText)) : i \in Indices}
  \cup {ParsedDuration(FfmpegDuration(i, Seconds, NoText)) : i \in Indices}

SourceIdle ==
  /\ transcript = <<>> /\ pos = 0
  /\ wire = <<>> /\ written = 0 /\ rd = 0 /\ lines_bytes = <<>>
  /\ closed = FALSE

AdapterNew ==
  /\ metadata = MetadataNew
  /\ cur_section = SectionOther
  /\ parsed = NotPolled /\ polled = NotPolled /\ yielded = <<>>
  /\ fed = <<>> /\ ret = "none"
  /\ collect_metadata = NotCalled /\ event_queue = <<>>
  /\ extracted = NotExtracted
  /\ child = stream(ChildNew)

InitAgg == AdapterNew /\ SourceIdle

HandleEventCall ==
  /\ ret # "panic"
  /\ Len(fed) < MaxCalls
  /\ \E item \in AggEvents :
       /\ metadata' = handle_event(metadata, item).metadata
       /\ ret' = handle_event(metadata, item).ret
       /\ fed' = Append(fed, item)
  /\ UNCHANGED <<cur_section, transcript, pos, wire, written, rd, lines_bytes,
                 closed, parsed, polled, yielded, collect_metadata, event_queue,
                 extracted, child>>

NextAgg == HandleEventCall

SpecAgg == InitAgg /\ [][NextAgg]_vars

(***************************************************************************)
(* The adapter over a line source: the source delivers the lines of        *)
(* `transcript` one by one, may report Pending before any of them, and     *)
(* closes after the last.                                                  *)
(***************************************************************************)
LineVersion == <<"[info]", " ", "ffmpeg version ", "7.0", " ", "Copyright">>
LineConfiguration == <<"[info]", "  ", "configuration: ", "--enable-gpl">>
LineInput(n) == <<"[info]", " ", "Input #", n, ",", " ", "lavfi">>
LineOutput == <<"[info]", " ", "Output #", "0", ",", " ", "mp4", ",", " to '", "out.mp4", "'", ":">>
LineDuration == <<"[info]", "  ", "Duration:", " ", "00", ":", "00", ":", "05", ",", " ", "start">>
LineDurationNA == <<"[info]", "  ", "Duration:", " ", "N/A", ",", " ", "start">>
LineMarker == <<"[info]", " ", "Stream mapping:">>
LineMapping == <<"[info]", "  ", "Stream #", "0", ":", "0", " ", "->", " ", "#0:0">>
LineStream == <<"[info]", "  ", "Stream #", "0", ":", "0", "(", "eng", ")", ":", " ", "Video", ":",
                " ", "h264", ",", " ", VideoFields>>
LineStreamBare == <<"Stream #", "0", ":", "1", ":", " ", "Data", ":", " ", "bin_data">>
LineStreamMarker == <<"Stream #", "0", ":", "1", ":", " ", "Data", ":", " ", "Stream mapping:">>
LineProgressAt(frame) ==
  <<"[info]", " ", "frame=", " ", frame, " ", "fps=", "0", " ", "q=", "-1.0", " ", "Lsize=", " ",
    "10", "KiB", " ", "time=", "00:00:03.00", " ", "bitrate=", " ", "3", "kbits/s", " ",
    "speed=", " ", "2", "x">>
LineProgress == LineProgressAt("5")
LineProgressMarker == LineProgress \o <<" ", "Stream mapping:">>
LineError == <<"[error]", " ", "Conversion failed!">>
LinePlain == <<"Press [q] to stop">>

\* The lines a transcript is made of, and the openings it may start with:
\* nothing, or a job that has already announced its one mapped output.
Corpus ==
  {LineVersion, LineConfiguration, LineInput("0"), LineInput("1"), LineOutput,
   LineDuration, LineMarker, LineMapping, LineStream, LineStreamBare, LineStreamMarker,
   LineProgress, LineProgressMarker, LineError, LinePlain, InvalidUtf8}

\* The log of a whole job up to its last stream line: one input with its
\* duration and stream, the stream mapping, one output with its stream.
JobLog ==
  <<LineVersion, LineConfiguration, LineInput("0"), LineDuration, LineStream,
    LineMarker, LineMapping, LineOutput, LineStream>>

Openings == {<<>>, <<LineMarker, LineMapping, LineOutput>>}

BoundedSeq(S, n) == UNION {[1..k -> S] : k \in 0..n}

Init ==
  /\ AdapterNew
  /\ transcript \in {o \o t : o \in Openings, t \in BoundedSeq(Corpus, MaxLines)}
  /\ pos = 0
  /\ wire = <<>> /\ written = 0 /\ rd = 0 /\ lines_bytes = <<>>
  /\ closed = FALSE

\* One poll_next call whose read future is ready with `read`.
PollReady(read) ==
  \E r \in {poll_next(cur_section, metadata, read)},
     p \in {parse_next_event(cur_section, read)} :
      /\ cur_section' = r.section
      /\ metadata' = r.metadata
      /\ polled' = r.polled
      /\ parsed' = IF p.ok THEN [ok |-> TRUE, event |-> p.event]
                   ELSE [ok |-> FALSE, msg |-> p.msg]
      /\ yielded' = IF r.polled.tag = "Ready" /\ r.polled.item # None
                    THEN Append(yielded, Unwrap(r.polled.item))
                    ELSE yielded
      /\ \E c \in {CollectLoop(event_queue, r.metadata, r.polled)} :
           /\ collect_metadata' = IF collect_metadata = Running THEN c.call
                                  ELSE collect_metadata
           /\ event_queue' = IF collect_metadata = Running THEN c.queue ELSE event_queue

\* poll_next when the next line is available.
PollLine ==
  /\ polled # Panicked
  /\ pos < Len(transcript)
  /\ PollReady(IF transcript[pos + 1] = InvalidUtf8 THEN ReadErr
               ELSE ReadLine(transcript[pos + 1]))
  /\ pos' = pos + 1
  /\ UNCHANGED <<transcript, wire, written, rd, lines_bytes, closed, fed, ret, extracted, child>>

\* poll_next when the source has nothing to give yet: the read future is
\* Pending and is dropped.
PollPending ==
  /\ polled # Panicked
  /\ ~closed
  /\ polled' = Pending
  /\ parsed' = Pending
  /\ UNCHANGED <<metadata, cur_section, transcript, pos, wire, written, rd,
                 lines_bytes, closed, yielded, fed, ret, collect_metadata, event_queue,
                 extracted, child>>

\* poll_next when the source is exhausted and closed.
PollEof ==
  /\ polled # Panicked
  /\ pos = Len(transcript)
  /\ closed' = TRUE
  /\ PollReady(ReadEof)
  /\ UNCHANGED <<transcript, pos, wire, written, rd, lines_bytes, fed, ret, extracted, child>>

\* Mutant of the call: the loop entered before the aggregate is looked at.
CollectMetadata_PullsFirst ==
  /\ collect_metadata = NotCalled
  /\ \/ polled = NotPolled
     \/ polled # Panicked /\ is_completed(metadata)
     \/ polled = Ready(None)
  /\ collect_metadata' = Running
  /\ event_queue' = <<>>
  /\ UNCHANGED <<metadata, cur_section, transcript, pos, wire, written, rd,
                 lines_bytes, closed, parsed, polled, yielded, fed, ret, extracted, child>>

\* collect_metadata is called, on a stream nobody has pulled from yet (as in
\* test_metadata_duration), on one whose aggregate is complete, or on one
\* that has reported its end: event_queue starts empty, and the call returns
\* at once when the aggregate is complete.
CollectMetadata ==
  /\ collect_metadata = NotCalled
  /\ \/ polled = NotPolled
     \/ polled # Panicked /\ is_completed(metadata)
     \/ polled = Ready(None)
  /\ collect_metadata' = IF is_completed(metadata) THEN Returned(metadata) ELSE Running
  /\ event_queue' = <<>>
  /\ UNCHANGED <<metadata, cur_section, transcript, pos, wire, written, rd,
                 lines_bytes, closed, parsed, polled, yielded, fed, ret, extracted, child>>

Next == PollLine \/ PollPending \/ PollEof \/ CollectMetadata

Spec == Init /\ [][Next]_vars

\* The adapter over the log of a whole job, followed by what the job prints
\* while it runs.
JobTail == {LineProgress, LineProgressAt("10"), LinePlain}

InitJob ==
  /\ AdapterNew
  /\ transcript \in {JobLog \o t : t \in BoundedSeq(JobTail, MaxLines)}
  /\ pos = 0
  /\ wire = <<>> /\ written = 0 /\ rd = 0 /\ lines_bytes = <<>>
  /\ closed = FALSE

SpecJob == InitJob /\ [][Next]_vars

\* The adapter over what a job prints from its first progress line on.
InitProgress ==
  /\ AdapterNew
  /\ transcript \in {<<LineProgress>> \o t : t \in BoundedSeq(Corpus, MaxLines)}
  /\ pos = 0
  /\ wire = <<>> /\ written = 0 /\ rd = 0 /\ lines_bytes = <<>>
  /\ closed = FALSE

SpecProgress == InitProgress /\ [][Next]_vars

(***************************************************************************)
(* The adapter over a byte source: the process writes the chunks of `wire` *)
(* to the pipe one by one and then closes it; the parser reads lines with  *)
(* tokio's Lines::next_line (FfmpegLogParser::new, parse_next_event).      *)
(***************************************************************************)
Chunks == {<<CR>>, <<LF>>, LineProgressAt("5"), LineProgressAt("10")}

\* The chunks written to the pipe and not yet consumed by the reader.
Available == SubSeq(wire, rd + 1, written)

\* Position of the first chunk of `chunks` that is a line feed, 0 if none.
FirstLF(chunks) ==
  IF \E i \in DOMAIN chunks : chunks[i] = <<LF>>
  THEN CHOOSE i \in DOMAIN chunks :
         chunks[i] = <<LF>> /\ \A j \in 1..(i - 1) : chunks[j] # <<LF>>
  ELSE 0

\* The line next_line returns for the bytes gathered up to a line feed or
\* the end of the source: one trailing "\n" is dropped, then one trailing
\* "\r" if a "\n" was dropped.
StripLineEnd(buf) ==
  IF buf # <<>> /\ Last(buf) = LF
  THEN LET cut == SubSeq(buf, 1, Len(buf) - 1)
       IN  IF cut # <<>> /\ Last(cut) = CR THEN SubSeq(cut, 1, Len(cut) - 1) ELSE cut
  ELSE buf

\* Mutant of next_line: the bytes of an unfinished line lost with the read
\* future that is dropped on Pending.
next_line_DropsPartial ==
  LET n == FirstLF(Available)
      buf == lines_bytes \o Concat(IF n > 0 THEN SubSeq(Available, 1, n) ELSE Available)
  IN  IF n > 0 THEN [read |-> ReadLine(StripLineEnd(buf)), rd |-> rd + n, buf |-> <<>>]
      ELSE IF ~(closed /\ written = Len(wire)) THEN [read |-> Pending, rd |-> written, buf |-> <<>>]
      ELSE IF buf = <<>> THEN [read |-> ReadEof, rd |-> written, buf |-> <<>>]
      ELSE [read |-> ReadLine(StripLineEnd(buf)), rd |-> written, buf |-> <<>>]

\* Lines::next_line polled once: what it returns (a line, the end, or
\* Pending), the chunks it consumed and the partial line it keeps.
next_line ==
  LET n == FirstLF(Available)
      buf == lines_bytes \o Concat(IF n > 0 THEN SubSeq(Available, 1, n) ELSE Available)
  IN  IF n > 0 THEN [read |-> ReadLine(StripLineEnd(buf)), rd |-> rd + n, buf |-> <<>>]
      ELSE IF ~(closed /\ written = Len(wire)) THEN [read |-> Pending, rd |-> written, buf |-> buf]
      ELSE IF buf = <<>> THEN [read |-> ReadEof, rd |-> written, buf |-> <<>>]
      ELSE [read |-> ReadLine(StripLineEnd(buf)), rd |-> written, buf |-> <<>>]

InitBytes ==
  /\ AdapterNew
  /\ transcript = <<>> /\ pos = 0
  /\ wire \in BoundedSeq(Chunks, MaxChunks)
  /\ written = 0 /\ rd = 0 /\ lines_bytes = <<>>
  /\ closed = FALSE

\* The process writes its next chunk to stderr.
WriteChunk ==
  /\ written < Len(wire)
  /\ written' = written + 1
  /\ UNCHANGED <<metadata, cur_section, transcript, pos, wire, rd, lines_bytes, closed,
                 parsed, polled, yielded, fed, ret, collect_metadata, event_queue,
                 extracted, child>>

\* The process exits: the write end of the pipe closes.
ClosePipe ==
  /\ written = Len(wire)
  /\ ~closed
  /\ closed' = TRUE
  /\ UNCHANGED <<metadata, cur_section, transcript, pos, wire, written, rd, lines_bytes,
                 parsed, polled, yielded, fed, ret, collect_metadata, event_queue,
                 extracted, child>>

\* poll_next when no whole line is in the pipe and the pipe is open: the bytes
\* at hand move into the Lines buffer and the read future is dropped.
PollBytesPending ==
  /\ polled # Panicked
  /\ next_line.read = Pending
  /\ rd' = next_line.rd
  /\ lines_bytes' = next_line.buf
  /\ polled' = Pending
  /\ parsed' = Pending
  /\ UNCHANGED <<metadata, cur_section, transcript, pos, wire, written, closed, yielded,
                 fed, ret, collect_metadata, event_queue,
                 extracted, child>>

\* poll_next when next_line is ready with a line or the end of the source.
PollBytesReady ==
  /\ polled # Panicked
  /\ next_line.read # Pending
  /\ rd' = next_line.rd
  /\ lines_bytes' = next_line.buf
  /\ PollReady(next_line.read)
  /\ UNCHANGED <<transcript, pos, wire, written, closed, fed, ret, extracted, child>>

NextBytes == WriteChunk \/ ClosePipe \/ PollBytesPending \/ PollBytesReady

SpecBytes == InitBytes /\ [][NextBytes]_vars

(***************************************************************************)
(* The calls on a spawned FfmpegChild, in any order.                       *)
(***************************************************************************)
Commands == {<<"q">>, <<"+">>}

\* No adapter is in use.
AdapterIdle ==
  /\ metadata = MetadataNew
  /\ cur_section = SectionOther
  /\ parsed = NotPolled /\ polled = NotPolled /\ yielded = <<>>
  /\ fed = <<>> /\ ret = "none"
  /\ collect_metadata = NotCalled /\ event_queue = <<>>

InitChild == AdapterIdle /\ SourceIdle /\ extracted = NotExtracted /\ child = ChildNew

ChildCall(after) ==
  /\ child.calls < MaxOps
  /\ child' = after
  /\ UNCHANGED <<metadata, cur_section, transcript, pos, wire, written, rd, lines_bytes,
                 closed, parsed, polled, yielded, fed, ret, collect_metadata,
                 event_queue, extracted>>

StreamCall == ChildCall(stream(child))
TakeStderr == ChildCall(take_stderr(child))
TakeStdin == ChildCall(take_stdin(child))
SendStdinCommand ==
  \E command \in Commands, write_ok \in BOOLEAN :
    ChildCall(send_stdin_command(child, command, write_ok))
Quit == \E write_ok \in BOOLEAN : ChildCall(quit(child, write_ok))

NextChild == StreamCall \/ TakeStderr \/ TakeStdin \/ SendStdinCommand \/ Quit

SpecChild == InitChild /\ [][NextChild]_vars

(***************************************************************************)
(* The extractors and the parser called directly on one text: a line of    *)
(* the log, or a time token.  The parser is in any section when it reads   *)
(* the line.                                                               *)
(***************************************************************************)
Tags == {"[info]", "[warning]", "[error]", "[fatal]"}
NoTag == ""

TaggedLine(tag, body) == IF tag = NoTag THEN body ELSE <<tag, " ">> \o body

VersionBody == <<"ffmpeg version ", "7.0", " ", "Copyright">>
ConfigurationBody == <<"configuration: ", "--enable-gpl", " ", "--enable-static">>

\* Lines that hold a severity marker elsewhere than at their start, or two.
MarkerLines ==
  {<<"see", " ", "[warning]">>, <<"[warning]", " ", "deprecated", " ", "[info]">>,
   <<"[fatal]", " ", "[error]">>, <<"[error]", " ", "[warning]">>}

\* Time tokens: one to four components joined by colons.
TimeWords == {"1", "05", "N/A"}
MaxComponents == 4

RECURSIVE JoinColon(_)
JoinColon(c) == IF Len(c) <= 1 THEN c ELSE <<Head(c), ":">> \o JoinColon(Tail(c))

TimeStrs == {JoinColon(c) : c \in UNION {[1..k -> TimeWords] : k \in 1..MaxComponents}}

DurationLine(t) == <<"[info]", "  ", "Duration:", " ">> \o t \o <<",", " ", "start">>

\* Progress lines: the size with either unit or N/A, the bitrate and the
\* speed given or N/A.
SizeWords == {<<"10", "KiB">>, <<"10", "kB">>, <<"N/A">>}
BitrateWords == {<<"3", "kbits/s">>, <<"N/A">>}
SpeedWords == {<<"2", "x">>, <<"N/A">>}

ProgressLine(size, bitrate, speed) ==
  <<"[info]", " ", "frame=", " ", "5", " ", "fps=", "0", " ", "q=", "-1.0", " ", "size=">>
    \o size \o <<" ", "time=", "00:00:03.00", " ", "bitrate=">> \o bitrate
    \o <<" ", "speed=">> \o speed

Texts ==
  {TaggedLine(tag, body) : tag \in Tags \cup {NoTag},
                           body \in {VersionBody, ConfigurationBody, LinePlain}}
  \cup MarkerLines
  \cup TimeStrs
  \cup {DurationLine(t) : t \in TimeStrs}
  \cup {ProgressLine(size, bitrate, speed) :
          size \in SizeWords, bitrate \in BitrateWords, speed \in SpeedWords}
  \cup (Corpus \ {InvalidUtf8})

Sections ==
  {SectionOther, SectionStreamMapping, SectionOutput(0)} \cup {SectionInput(n) : n \in Indices}

InitExtract ==
  /\ metadata = MetadataNew
  /\ cur_section \in Sections
  /\ parsed = NotPolled /\ polled = NotPolled /\ yielded = <<>>
  /\ fed = <<>> /\ ret = "none"
  /\ collect_metadata = NotCalled /\ event_queue = <<>>
  /\ SourceIdle
  /\ extracted \in {[fn |-> "none", arg |-> t] : t \in Texts}
  /\ child = stream(ChildNew)

\* One call fn(arg) of an extractor, which returned `result`.
ExtractorCall(fn, result) ==
  /\ extracted.fn = "none"
  /\ extracted' = [fn |-> fn, arg |-> extracted.arg, result |-> result]
  /\ UNCHANGED <<metadata, cur_section, transcript, pos, wire, written, rd, lines_bytes,
                 closed, parsed, polled, yielded, fed, ret, collect_metadata,
                 event_queue, child>>

TryParseVersion == ExtractorCall("try_parse_version", try_parse_version(extracted.arg))
TryParseConfiguration ==
  ExtractorCall("try_parse_configuration", try_parse_configuration(extracted.arg))
ParseTimeStr == ExtractorCall("parse_time_str", parse_time_str(extracted.arg))
TryParseDuration == ExtractorCall("try_parse_duration", try_parse_duration(extracted.arg))
TryParseProgress == ExtractorCall("try_parse_progress", try_parse_progress(extracted.arg))

\* parse_next_event when next_line gives the text as the next line.
ParseNextEvent ==
  /\ extracted.fn = "none"
  /\ \E p \in {parse_next_event(cur_section, ReadLine(extracted.arg))} :
       /\ cur_section' = p.section
       /\ parsed' = IF p.ok THEN [ok |-> TRUE, event |-> p.event]
                    ELSE [ok |-> FALSE, msg |-> p.msg]
       /\ extracted' = [fn |-> "parse_next_event", arg |-> extracted.arg,
                        section |-> cur_section]
  /\ UNCHANGED <<metadata, transcript, pos, wire, written, rd, lines_bytes, closed,
                 polled, yielded, fed, ret, collect_metadata, event_queue, child>>

NextExtract ==
  \/ TryParseVersion \/ TryParseConfiguration \/ ParseTimeStr
  \/ TryParseDuration \/ TryParseProgress \/ ParseNextEvent

SpecExtract == InitExtract /\ [][NextExtract]_vars

(***************************************************************************)
(* Properties of the aggregate, checked under SpecAgg.                     *)
(***************************************************************************)
CompletionPredicate(m) ==
  m.expected_output_streams > 0 /\ Len(m.output_streams) = m.expected_output_streams

\* An input with this index was registered by an Input event.
Registered(m, index) == \E k \in DOMAIN m.inputs : m.inputs[k].index = index

\* s is a mappings StreamMappingEntry events followed by OutputStream events only.
MappingsThenStreams(s, mappings) ==
  /\ mappings \in 1..Len(s)
  /\ \A k \in 1..Len(s) :
       IF k <= mappings THEN s[k].kind = "ParsedStreamMapping"
       ELSE s[k].kind = "ParsedOutputStream"

\* C2: in every reachable state of the aggregate, is_completed() is true if
\* and only if the expected-output-stream counter is greater than 0 and the
\* number of collected output streams equals it.
C2_CompletedIffPredicate ==
  is_completed(metadata) <=> CompletionPredicate(metadata)

\* C2 witness: a completed aggregate of two mapped output streams.
C2_Witness ==
  /\ is_completed(metadata)
  /\ metadata.expected_output_streams = 2
  /\ Len(metadata.output_streams) = 2

\* C3: once the aggregate is complete, every further handle_event call, for
\* any event, returns an error and leaves the whole aggregate unchanged.
C3_UpdateAfterCompletionFails ==
  [][(is_completed(metadata) /\ fed' # fed) => (ret' = "err" /\ metadata' = metadata)]_vars

\* C3 witness: a call was made on a completed aggregate and was refused.
C3_Witness ==
  /\ is_completed(metadata)
  /\ ret = "err"

\* C4 (as claimed): a handle_event call with a Duration event whose input
\* index is not registered returns an error to the caller and leaves the
\* aggregate as it was.
C4_UnregisteredDurationIsError ==
  [][(/\ fed' # fed
      /\ ~is_completed(metadata)
      /\ Last(fed').kind = "ParsedDuration"
      /\ ~Registered(metadata, Last(fed').duration.input_index))
     => (ret' = "err" /\ metadata' = metadata)]_vars

\* C9: feeding a fresh aggregator N StreamMappingEntry events followed by
\* OutputStream events makes it complete exactly when the N-th OutputStream
\* event has been handled, and at no earlier call.
C9_CompleteAtNthOutputStream ==
  \A n \in 1..Len(fed) :
    (MappingsThenStreams(fed, n) /\ Len(fed) - n <= n)
      => (is_completed(metadata) <=> Len(fed) - n = n)

\* C9 witness: two mapping entries then two output streams, complete.
C9_Witness ==
  /\ MappingsThenStreams(fed, 2)
  /\ Len(fed) = 4
  /\ is_completed(metadata)

\* C10 (as claimed): after N StreamMappingEntry events followed by N+1
\* OutputStream events the aggregate has not reached completion under the
\* completion predicate.
C10_ExtraStreamNotComplete ==
  \A n \in 1..Len(fed) :
    (MappingsThenStreams(fed, n) /\ Len(fed) - n = n + 1)
      => ~(is_completed(metadata) \/ CompletionPredicate(metadata))

\* C10 (amended): after N StreamMappingEntry events followed by N+1
\* OutputStream events the aggregate is complete, reached at the N-th
\* OutputStream event; the (N+1)-th call fails and is not collected, so the
\* counter and the collected output-stream count are both N.
C10_ExtraStreamRejected ==
  \A n \in 1..Len(fed) :
    (MappingsThenStreams(fed, n) /\ Len(fed) - n = n + 1)
      => /\ is_completed(metadata)
         /\ ret = "err"
         /\ metadata.expected_output_streams = n
         /\ Len(metadata.output_streams) = n

\* C10 witness: two mapping entries then three output streams were fed.
C10_Witness ==
  /\ MappingsThenStreams(fed, 2)
  /\ Len(fed) = 5
  /\ ret = "err"

\* The aggregate with `x` appended to the list `field`, all else the same
\* (the completed flag apart, which follows the completion check).
Appended(m, field, x) ==
  CASE field = "inputs" -> [m EXCEPT !.inputs = Append(@, x)]
    [] field = "outputs" -> [m EXCEPT !.outputs = Append(@, x)]
    [] field = "input_streams" -> [m EXCEPT !.input_streams = Append(@, x)]
    [] field = "output_streams" -> [m EXCEPT !.output_streams = Append(@, x)]

SameButCompleted(m1, m2) == [m1 EXCEPT !.completed = FALSE] = [m2 EXCEPT !.completed = FALSE]

\* C16: on an aggregate that is not complete, handle_event changes only the
\* part of the state that belongs to the event: Input appends one descriptor
\* with no duration to inputs, Output one to outputs, InputStream one to
\* input_streams, OutputStream one to output_streams, StreamMappingEntry
\* changes only the counter (by one), and Version, Configuration, Progress,
\* Log, Error and EOF leave the lists and the counter unchanged.
C16_HandleEventFrame ==
  [][(fed' # fed /\ ~is_completed(metadata)) =>
       LET item == Last(fed')
       IN  CASE item.kind = "ParsedInput" ->
                  /\ SameButCompleted(metadata', Appended(metadata, "inputs", item.input))
                  /\ Last(metadata'.inputs).duration = None
             [] item.kind = "ParsedOutput" ->
                  SameButCompleted(metadata', Appended(metadata, "outputs", item.output))
             [] item.kind = "ParsedInputStream" ->
                  SameButCompleted(metadata', Appended(metadata, "input_streams", item.stream))
             [] item.kind = "ParsedOutputStream" ->
                  SameButCompleted(metadata', Appended(metadata, "output_streams", item.stream))
             [] item.kind = "ParsedStreamMapping" ->
                  SameButCompleted(metadata',
                    [metadata EXCEPT !.expected_output_streams = @ + 1])
             [] item.kind = "ParsedDuration" -> TRUE
             [] OTHER -> SameButCompleted(metadata', metadata)]_vars

\* C16 witness: every list holds a descriptor, the counter is 1, and the last
\* call, with an event of no concern to the aggregate, returned Ok.
C16_Witness ==
  /\ Len(metadata.inputs) = 1 /\ Len(metadata.outputs) = 1
  /\ Len(metadata.input_streams) = 1
  /\ metadata.expected_output_streams = 1
  /\ fed # <<>> /\ Last(fed).kind = "Progress" /\ ret = "ok"

\* C17 (as claimed): a Duration(index, value) event sets the duration of the
\* registered input descriptor whose index is `index`, and of no other
\* input, whatever the order and numbering of the Input events before it.
C17_DurationSetsInputOfThatIndex ==
  [][(/\ fed' # fed
      /\ ~is_completed(metadata)
      /\ Last(fed').kind = "ParsedDuration"
      /\ Registered(metadata, Last(fed').duration.input_index))
     => /\ ret' = "ok"
        /\ Len(metadata'.inputs) = Len(metadata.inputs)
        /\ \A k \in DOMAIN metadata.inputs :
             metadata'.inputs[k] =
               IF metadata.inputs[k].index = Last(fed').duration.input_index
               THEN [metadata.inputs[k] EXCEPT !.duration = Some(Last(fed').duration.duration)]
               ELSE metadata.inputs[k]]_vars

\* C17, the part of it that does not depend on how the inputs are numbered:
\* the descriptor at position `index` of the vector is the one that changes.
C17_DurationSetsInputAtThatPosition ==
  [][(/\ fed' # fed
      /\ ~is_completed(metadata)
      /\ Last(fed').kind = "ParsedDuration"
      /\ ret' = "ok")
     => metadata'.inputs =
          [metadata.inputs EXCEPT ![Last(fed').duration.input_index + 1].duration =
             Some(Last(fed').duration.duration)]]_vars

\* The case of C17 where the duration lands on another input: input 1 was
\* registered first, input 0 second, and the duration of input 1 is held by
\* the descriptor of input 0.
C17_DurationOnOtherInput ==
  /\ Len(metadata.inputs) = 2
  /\ metadata.inputs[1].index = 1 /\ metadata.inputs[1].duration = None
  /\ metadata.inputs[2].index = 0 /\ metadata.inputs[2].duration = Some(Seconds)
  /\ Last(fed) = ParsedDuration(FfmpegDuration(1, Seconds, NoText))

\* C18 (as claimed): in every reachable state of the aggregate, before any
\* Input event and on a completed aggregate that never saw an Input header
\* included, duration() returns without failing, and its result is the
\* duration of the first registered input.
C18_DurationAlwaysReturns ==
  /\ duration(metadata).ret = "ok"
  /\ duration(metadata).value = metadata.inputs[1].duration

\* C18, the part of it that holds: once an input is registered, duration()
\* returns the duration of the first one, whatever the later ones hold.
C18_DurationOfFirstInput ==
  metadata.inputs # <<>> =>
    duration(metadata) = [ret |-> "ok", value |-> metadata.inputs[1].duration]

\* The case of C18 where duration() fails: a completed aggregate that never
\* saw an Input event.
C18_CompletedWithoutInput ==
  /\ is_completed(metadata)
  /\ metadata.inputs = <<>>
  /\ duration(metadata).ret = "panic"

Count(s, kind) == Cardinality({k \in DOMAIN s : s[k].kind = kind})

\* The calls so far were M >= 1 StreamMappingEntry events and M OutputStream
\* events, in some order, and nothing else.
MappingsAndStreamsInAnyOrder(s) ==
  /\ \A k \in DOMAIN s : s[k].kind \in {"ParsedStreamMapping", "ParsedOutputStream"}
  /\ Count(s, "ParsedStreamMapping") >= 1
  /\ Count(s, "ParsedStreamMapping") = Count(s, "ParsedOutputStream")

\* C29: after M >= 1 StreamMappingEntry events and M OutputStream events in
\* any order, the aggregate is complete and became so at the last of them:
\* the last call found it incomplete and returned Ok.
C29_CompleteAtLastOfAnyInterleaving ==
  MappingsAndStreamsInAnyOrder(fed) => (is_completed(metadata) /\ ret = "ok")

\* What the code does: the aggregate is complete from the first call after
\* which the output streams collected equal the mapping entries counted,
\* one at least.
C29_CompleteAtFirstBalance ==
  is_completed(metadata) <=>
    \E k \in 1..Len(fed) :
      /\ Count(SubSeq(fed, 1, k), "ParsedStreamMapping") >= 1
      /\ Count(SubSeq(fed, 1, k), "ParsedStreamMapping")
           = Count(SubSeq(fed, 1, k), "ParsedOutputStream")

\* mapping, stream, mapping, stream: complete at the second event, and the
\* two that follow are refused
C29_CompleteBeforeLast ==
  /\ Len(fed) = 4
  /\ MappingsAndStreamsInAnyOrder(fed)
  /\ fed[1].kind = "ParsedStreamMapping" /\ fed[2].kind = "ParsedOutputStream"
  /\ is_completed(metadata) /\ ret = "err"
  /\ metadata.expected_output_streams = 1 /\ Len(metadata.output_streams) = 1

IsPrefix(s, t) == Len(s) <= Len(t) /\ SubSeq(t, 1, Len(s)) = s

\* The inputs without their duration field.
NoDuration(inputs) == [k \in DOMAIN inputs |-> [inputs[k] EXCEPT !.duration = None]]

\* C34: no handle_event call takes anything back.  A complete aggregate
\* stays complete; the counter of expected output streams does not decrease;
\* and each of the four lists after the call is the list before it, or that
\* list with one element appended, the duration field of the inputs apart.
C34_AggregateMonotonic ==
  [][/\ is_completed(metadata) => is_completed(metadata')
     /\ metadata'.expected_output_streams >= metadata.expected_output_streams
     /\ IsPrefix(NoDuration(metadata.inputs), NoDuration(metadata'.inputs))
     /\ IsPrefix(metadata.outputs, metadata'.outputs)
     /\ IsPrefix(metadata.input_streams, metadata'.input_streams)
     /\ IsPrefix(metadata.output_streams, metadata'.output_streams)
     /\ Len(metadata'.inputs) <= Len(metadata.inputs) + 1
     /\ Len(metadata'.outputs) <= Len(metadata.outputs) + 1
     /\ Len(metadata'.input_streams) <= Len(metadata.input_streams) + 1
     /\ Len(metadata'.output_streams) <= Len(metadata.output_streams) + 1]_vars

\* C34 witness: two inputs in the order they were registered, the first
\* with the duration a later event gave it.
C34_Witness ==
  /\ Len(metadata.inputs) = 2
  /\ metadata.inputs[1].index = 1 /\ metadata.inputs[2].index = 0
  /\ metadata.inputs[1].duration = Some(Seconds)

(***************************************************************************)
(* Properties of the adapter over a line source, checked under Spec.       *)
(***************************************************************************)
Range(s) == {s[k] : k \in DOMAIN s}

\* The line an event was made from (an Error event quotes it after its message).
LineOf(e) == IF e.kind = "Error" /\ e.raw # <<>> /\ Head(e.raw) = UnexpectedStream
             THEN Tail(e.raw) ELSE e.raw

\* The poll_next call of this step consumed a line, and read it without error.
ReadsLine == pos' = pos + 1 /\ transcript[pos'] # InvalidUtf8

\* A stream specification read in section Other or StreamMapping and not
\* taken as a stream-mapping entry.
StreamSpecOutOfPlace(section, line) ==
  /\ try_parse_stream(line) # None
  /\ section.tag \in {"Other", "StreamMapping"}
  /\ ParseChain(IF contains(line, "Stream mapping:") THEN SectionStreamMapping ELSE section,
                line).ok = FALSE

\* The aggregate obtained by handing the events to handle_event in order,
\* stopping at the event that completes it.
RECURSIVE FoldEvents(_, _)
FoldEvents(m, events) ==
  IF events = <<>> \/ is_completed(m) THEN m
  ELSE FoldEvents(handle_event(m, Head(events)).metadata, Tail(events))

\* C1 (as claimed): for every sequence of lines delivered without read
\* errors, the stream yields exactly one event per line consumed, the k-th
\* event made from the k-th line, and it ends only after the last line.
C1_OneEventPerLine ==
  (InvalidUtf8 \notin Range(transcript)) =>
    /\ Len(yielded) = pos
    /\ \A k \in 1..Len(yielded) : LineOf(yielded[k]) = transcript[k]
    /\ (polled = Ready(None) => pos = Len(transcript))

\* C6 (as claimed): when the sequence has ended, the consumer has observed
\* exactly one EOF event, and it is the last item.
C6_EndsWithEofEvent ==
  (polled = Ready(None)) =>
    /\ yielded # <<>>
    /\ Last(yielded) = LogEOF
    /\ Cardinality({k \in DOMAIN yielded : yielded[k] = LogEOF}) = 1

\* C6 (amended): on source exhaustion parse_next_event returns the EOF event
\* and the adapter ends the sequence without yielding it: no yielded event is
\* an EOF event, and the end comes right after the event of the last line.
C6_EndsWithoutEofEvent ==
  /\ \A k \in DOMAIN yielded : yielded[k].kind # "LogEOF"
  /\ (polled = Ready(None)) =>
       /\ parsed = [ok |-> TRUE, event |-> LogEOF]
       /\ pos = Len(transcript)
       /\ Len(yielded) = Len(transcript)

\* C6 witness: a source of several lines was exhausted and the sequence ended.
C6_Witness == polled = Ready(None) /\ Len(yielded) >= 2

\* C7 (as claimed): a stream specification read in section Other or
\* StreamMapping (not taken as a mapping entry) yields exactly one Error
\* event and leaves the section and the aggregate unchanged.
C7_ErrorLeavesSection ==
  [][(ReadsLine /\ StreamSpecOutOfPlace(cur_section, transcript[pos']))
     => /\ polled' = Ready(Some(Error(<<UnexpectedStream>> \o transcript[pos'])))
        /\ yielded' = Append(yielded, Unwrap(polled'.item))
        /\ metadata' = metadata
        /\ cur_section' = cur_section]_vars

\* C7 (amended): such a line yields exactly one Error event and does not end
\* the sequence; the aggregate is unchanged; the section is unchanged unless
\* the line also contains the "Stream mapping:" marker, which sets it to
\* StreamMapping.
C7_ErrorKeepsSequence ==
  [][(ReadsLine /\ StreamSpecOutOfPlace(cur_section, transcript[pos']))
     => /\ polled' = Ready(Some(Error(<<UnexpectedStream>> \o transcript[pos'])))
        /\ yielded' = Append(yielded, Unwrap(polled'.item))
        /\ metadata' = metadata
        /\ cur_section' = IF contains(transcript[pos'], "Stream mapping:")
                          THEN SectionStreamMapping ELSE cur_section]_vars

\* C7 witness: an Error event for an unexpected stream specification was
\* yielded, and the next line was then classified as a mapping entry.
C7_Witness ==
  \E k \in 1..(Len(yielded) - 1) :
    /\ yielded[k].kind = "Error"
    /\ Head(yielded[k].raw) = UnexpectedStream
    /\ yielded[k + 1].kind = "ParsedStreamMapping"

\* C8: after every pull the adapter's aggregate is the result of handing the
\* events yielded so far to handle_event in order, up to and including the
\* event that completed it; later events are yielded but not applied.
C8_AggregateIsFoldOfYielded ==
  metadata = FoldEvents(MetadataNew, yielded)

\* C8 witness: an Input event was yielded after completion and not applied.
C8_Witness ==
  /\ is_completed(metadata)
  /\ yielded # <<>>
  /\ Last(yielded).kind = "ParsedInput"
  /\ metadata.inputs = <<>>

\* C11 (as claimed): a parseable Duration line yields a Duration event only
\* when the section is Input(i), and the event then carries index i; in any
\* other section the line yields an Info-level Log event and neither the
\* section nor the inputs of the aggregate change.  (Hence one Duration event
\* for a transcript whose only Duration line inside an Input section is one.)
C11_DurationOnlyInInputSection ==
  [][(ReadsLine /\ try_parse_duration(transcript[pos']) # None)
     => IF cur_section.tag = "Input"
        THEN yielded' = Append(yielded, ParsedDuration(
               FfmpegDuration(cur_section.index,
                              Unwrap(try_parse_duration(transcript[pos'])),
                              transcript[pos'])))
        ELSE /\ yielded' = Append(yielded, Log("Info", transcript[pos']))
             /\ cur_section' = cur_section
             /\ metadata'.inputs = metadata.inputs]_vars

\* The lists of the aggregate, and its counter.
Lists(m) == <<m.inputs, m.outputs, m.input_streams, m.output_streams>>
Counter(m) == m.expected_output_streams

\* Line k of the transcript, already consumed, is a "Stream mapping:" marker
\* line: it holds the marker and was taken neither as a header nor as a
\* Progress line.  Line k resets the section: it was taken as an Input
\* header, an Output header or a Progress line.
ResetsSection(events, k) == events[k].kind \in {"ParsedInput", "ParsedOutput", "Progress"}
MarkerLine(events, k) ==
  contains(transcript[k], "Stream mapping:") /\ ~ResetsSection(events, k)

\* A marker line among the first k lines, with no resetting line after it.
MarkerSince(events, k) ==
  \E j \in 1..k : /\ MarkerLine(events, j)
                  /\ \A i \in (j + 1)..k : ~ResetsSection(events, i)

\* C12: a StreamMappingEntry event is yielded only while the section is
\* StreamMapping, that is after a "Stream mapping:" marker line with no Input
\* header, Output header or Progress line since; handled by an aggregate
\* that is not complete, it adds exactly one to the counter and changes no
\* list.
C12_MappingEntryOnlyInStreamMapping ==
  [][(ReadsLine /\ Len(yielded') = Len(yielded) + 1
        /\ Last(yielded').kind = "ParsedStreamMapping")
     => /\ cur_section' = SectionStreamMapping
        /\ MarkerSince(yielded', pos')
        /\ ~is_completed(metadata) =>
             /\ Counter(metadata') = Counter(metadata) + 1
             /\ Lists(metadata') = Lists(metadata)]_vars

\* C12 witness: two mapping entries were yielded and counted.
C12_Witness ==
  /\ yielded # <<>>
  /\ Last(yielded).kind = "ParsedStreamMapping"
  /\ Counter(metadata) = 2
  /\ ~is_completed(metadata)

\* The pull of this step yields exactly one event, made from the line it read.
YieldsOneForLine ==
  /\ Len(yielded') = Len(yielded) + 1
  /\ SubSeq(yielded', 1, Len(yielded)) = yielded
  /\ LineOf(Last(yielded')) = transcript[pos']

\* What the claim says of headers: a recognized "Input #N" header sets the
\* section to Input(N) and yields an Input event with index N and no
\* duration; a recognized "Output #N" header sets the section to Output(N)
\* and yields an Output event with index N.
HeaderSetsSection(line) ==
  /\ try_parse_input(line) # None =>
       /\ cur_section' = SectionInput(Unwrap(try_parse_input(line)))
       /\ yielded' = Append(yielded, ParsedInput(
            [index |-> Unwrap(try_parse_input(line)), duration |-> None,
             raw_log_message |-> line]))
  /\ (try_parse_input(line) = None /\ try_parse_output(line) # None) =>
       /\ cur_section' = SectionOutput(Unwrap(try_parse_output(line)).index)
       /\ YieldsOneForLine
       /\ Last(yielded').kind = "ParsedOutput"
       /\ Last(yielded').output.index = Unwrap(try_parse_output(line)).index

\* A line that holds the "Stream mapping:" marker and is not a header.
HoldsMarker(line) ==
  /\ contains(line, "Stream mapping:")
  /\ try_parse_input(line) = None
  /\ try_parse_output(line) = None

\* C13 (as claimed): headers set the section and yield their event; every
\* "Stream mapping:" marker line sets the section to StreamMapping and still
\* yields exactly one event of its own.
C13_MarkerSetsStreamMapping ==
  [][ReadsLine =>
       /\ HeaderSetsSection(transcript[pos'])
       /\ HoldsMarker(transcript[pos']) =>
            /\ cur_section' = SectionStreamMapping
            /\ YieldsOneForLine]_vars

\* C13 (amended): headers set the section and yield their event; every line
\* holding the "Stream mapping:" marker that is not a header yields exactly
\* one event of its own and leaves the section StreamMapping, unless the
\* line is classified as a Progress line, which leaves the section Other.
C13_MarkerSetsStreamMappingUnlessProgress ==
  [][ReadsLine =>
       /\ HeaderSetsSection(transcript[pos'])
       /\ HoldsMarker(transcript[pos']) =>
            /\ YieldsOneForLine
            /\ cur_section' = IF Last(yielded').kind = "Progress"
                              THEN SectionOther ELSE SectionStreamMapping]_vars

\* C13 witness: an Input header, then the marker line, each yielded its
\* event, and the section is StreamMapping.
C13_Witness ==
  /\ Len(yielded) >= 2
  /\ yielded[Len(yielded) - 1].kind = "ParsedInput"
  /\ Last(yielded) = Log("Info", LineMarker)
  /\ cur_section = SectionStreamMapping

\* The single precedence chain of the claim, first match wins: version,
\* configuration, input header, output header, duration, stream-mapping
\* entry, stream specification, progress, severity-tagged log, Unknown-level
\* log; what it selects for `line` in `section`.
Selected(event) == [ok |-> TRUE, event |-> event]
Rejected(msg) == [ok |-> FALSE, msg |-> msg]

PrecedenceChain(section, line) ==
  IF try_parse_version(line) # None THEN Selected(ParsedVersion(line))
  ELSE IF try_parse_configuration(line) # None THEN Selected(ParsedConfiguration(line))
  ELSE IF try_parse_input(line) # None
    THEN Selected(ParsedInput(FfmpegInput(Unwrap(try_parse_input(line)), line)))
  ELSE IF try_parse_output(line) # None
    THEN Selected(ParsedOutput(Unwrap(try_parse_output(line))))
  ELSE IF try_parse_duration(line) # None THEN
    IF section.tag = "Input"
    THEN Selected(ParsedDuration(
           FfmpegDuration(section.index, Unwrap(try_parse_duration(line)), line)))
    ELSE Selected(Log("Info", line))
  ELSE IF section.tag = "StreamMapping" /\ ContainsIndentedStream(line)
    THEN Selected(ParsedStreamMapping(line))
  ELSE IF try_parse_stream(line) # None THEN
    CASE section.tag = "Input" -> Selected(ParsedInputStream(Unwrap(try_parse_stream(line))))
      [] section.tag = "Output" -> Selected(ParsedOutputStream(Unwrap(try_parse_stream(line))))
      [] OTHER -> Rejected(<<UnexpectedStream>> \o line)
  ELSE IF try_parse_progress(line) # None
    THEN Selected(Progress(Unwrap(try_parse_progress(line))))
  ELSE IF \E tag \in {"[info]", "[warning]", "[error]", "[fatal]"} : contains(line, tag)
    THEN Selected(Log(CASE contains(line, "[info]") -> "Info"
                        [] contains(line, "[warning]") -> "Warning"
                        [] contains(line, "[error]") -> "Error"
                        [] OTHER -> "Fatal", line))
  ELSE Selected(Log("Unknown", line))

\* C14 (as claimed): for every line and every section state, what
\* parse_next_event produces is what the single precedence chain selects for
\* the line in the current section.
C14_SingleChainInCurrentSection ==
  [][ReadsLine => parsed' = PrecedenceChain(cur_section, transcript[pos'])]_vars

\* C14 (amended): what parse_next_event produces is what the single
\* precedence chain selects for the line in the section as the line itself
\* leaves it: StreamMapping when the line, not being a header, holds the
\* "Stream mapping:" marker, the current section otherwise.
C14_SingleChainInTrackedSection ==
  [][ReadsLine =>
       parsed' = PrecedenceChain(IF HoldsMarker(transcript[pos'])
                                 THEN SectionStreamMapping ELSE cur_section,
                                 transcript[pos'])]_vars

\* C14 witness: in an Input section, a stream specification that holds the
\* marker was refused as an unexpected stream specification.
C14_Witness ==
  /\ Len(yielded) >= 2
  /\ yielded[Len(yielded) - 1].kind = "ParsedInput"
  /\ parsed = Rejected(<<UnexpectedStream>> \o LineStreamMarker)

\* What collect_metadata returns, when it has returned: the completed
\* aggregate and never an incomplete one; an error only when the source was
\* exhausted before completion; and once the source is exhausted, the
\* aggregate if and only if it became complete at or before the last line.
CollectResult ==
  /\ collect_metadata.tag = "Ok" =>
       /\ is_completed(collect_metadata.metadata)
       /\ collect_metadata.metadata = metadata
  /\ collect_metadata.tag = "Err" =>
       /\ ~is_completed(metadata)
       /\ pos = Len(transcript) /\ closed
  /\ (collect_metadata # NotCalled /\ closed) =>
       /\ collect_metadata.tag = "Ok" <=> is_completed(metadata)
       /\ collect_metadata.tag = "Err" <=> ~is_completed(metadata)

\* The next pull can be made: PollLine or PollEof is enabled.
CanPull == polled # Panicked /\ pos <= Len(transcript)

\* C19 (as claimed): collect_metadata returns the completed aggregate if and
\* only if the aggregate becomes complete at or before the last line of the
\* source; if the source is exhausted first it returns an error and never an
\* incomplete aggregate; and it terminates: a call that has not returned
\* can always make its next pull.
C19_CollectMetadataReturns ==
  /\ CollectResult
  /\ collect_metadata.tag \in {"NotCalled", "Ok", "Err", "Running"}
  /\ collect_metadata = Running => CanPull

\* C19, the part of it that holds: the result of a call that returns is as
\* claimed, and a call that does not return has unwound on the panic of a
\* pull.
C19_ReturnsOrUnwinds ==
  /\ CollectResult
  /\ collect_metadata = Unwound <=> (collect_metadata # NotCalled /\ polled = Panicked)
  /\ collect_metadata = Running => CanPull

\* The case of C19 where the call does not return: it was made on a fresh
\* stream and a pull panicked.
C19_Unwound == collect_metadata = Unwound /\ polled = Panicked

\* C20 (as claimed): while pulls are driven to collect metadata, the number
\* of events the adapter retains is bounded by a constant that does not
\* depend on the number of lines consumed: it never holds more than the one
\* event just pulled.
C20_RetainsBoundedEvents == Len(event_queue) <= 1

\* C20, what holds instead: while a call made on a fresh stream runs, its
\* event_queue holds one event for every line consumed so far.
C20_RetainsEveryEvent ==
  collect_metadata = Running => (Len(event_queue) = pos /\ event_queue = yielded)

\* The case of C20: a running call holds as many events as the longest
\* transcript without an opening has lines.
C20_QueueOfMaxLines ==
  /\ collect_metadata = Running
  /\ Len(event_queue) = MaxLines

\* The poll_next call of this step read a stream specification in `section`:
\* it yields a stream event of kind `kind` exactly when the section's tag is
\* `tag`; the event carries the stream as its line gives it, parent index
\* included; and an aggregate that is not complete has the stream appended to
\* its list `field` and is otherwise as it was, save for completion.
StreamEventIn(section, tag, kind, field) ==
  LET line == transcript[pos']
      s == Unwrap(try_parse_stream(line))
  IN  /\ section.tag = tag <=> (parsed'.ok /\ parsed'.event.kind = kind)
      /\ section.tag = tag =>
           /\ parsed'.event.stream = s /\ parsed'.event.raw = line
           /\ polled' = Ready(Some(parsed'.event))
           /\ IF is_completed(metadata) THEN metadata' = metadata
              ELSE SameButCompleted(metadata', Appended(metadata, field, s))

\* C27 (as claimed): a stream-specification line yields an InputStream event
\* exactly when the current section is Input(_) and an OutputStream event
\* exactly when it is Output(_), whatever parent index it carries, and is
\* appended to the matching list and no other.
C27_StreamEventByCurrentSection ==
  [][(ReadsLine /\ try_parse_stream(transcript[pos']) # None) =>
       /\ StreamEventIn(cur_section, "Input", "ParsedInputStream", "input_streams")
       /\ StreamEventIn(cur_section, "Output", "ParsedOutputStream", "output_streams")]_vars

\* C27 (amended): the same with the section as the line itself leaves it:
\* StreamMapping when the line holds the "Stream mapping:" marker, the current
\* section otherwise.
C27_StreamEventByTrackedSection ==
  [][(ReadsLine /\ try_parse_stream(transcript[pos']) # None) =>
       LET section == IF HoldsMarker(transcript[pos']) THEN SectionStreamMapping
                      ELSE cur_section
       IN  /\ StreamEventIn(section, "Input", "ParsedInputStream", "input_streams")
           /\ StreamEventIn(section, "Output", "ParsedOutputStream", "output_streams")]_vars

\* C27 witness: in the section of input 1, a stream specification with
\* parent index 0 gave an InputStream event, collected as an input stream.
C27_Witness ==
  /\ cur_section = SectionInput(1)
  /\ parsed = Selected([kind |-> "ParsedInputStream",
                        stream |-> FfmpegStream(0, 0, LineStream), raw |-> LineStream])
  /\ metadata.input_streams = <<FfmpegStream(0, 0, LineStream)>>
  /\ metadata.output_streams = <<>>

\* in an Input section, a stream specification holding the marker is refused
C27_RefusedInInputSection ==
  /\ Len(yielded) >= 2
  /\ yielded[Len(yielded) - 1].kind = "ParsedInput"
  /\ ~parsed.ok /\ parsed.msg = <<UnexpectedStream>> \o LineStreamMarker
  /\ metadata.input_streams = <<>>

IsHeader(line) == try_parse_input(line) # None \/ try_parse_output(line) # None

\* C28: when the classifier produces a Duration event, the most recent
\* header line read is an Input header whose index is the one the event
\* carries, and the Input event with that index has been yielded before it.
C28_DurationAfterItsInput ==
  [][(ReadsLine /\ parsed'.ok /\ parsed'.event.kind = "ParsedDuration") =>
       LET index == parsed'.event.duration.input_index
       IN  /\ \E k \in 1..pos :
                /\ try_parse_input(transcript[k]) = Some(index)
                /\ \A j \in (k + 1)..pos : ~IsHeader(transcript[j])
           /\ \E k \in DOMAIN yielded :
                /\ yielded[k].kind = "ParsedInput"
                /\ yielded[k].input.index = index]_vars

\* C28 witness: the Duration event of input 0 right after its Input event.
C28_Witness ==
  /\ Len(yielded) >= 2
  /\ yielded[Len(yielded) - 1].kind = "ParsedInput"
  /\ yielded[Len(yielded) - 1].input.index = 0
  /\ Last(yielded).kind = "ParsedDuration"
  /\ Last(yielded).duration.input_index = 0

(***************************************************************************)
(* Properties of the adapter over the log of a job, checked under SpecJob. *)
(***************************************************************************)
\* The kinds of the events of JobLog, line by line; the marker line's own
\* event is an Info-level Log.
JobLogKinds ==
  <<"ParsedVersion", "ParsedConfiguration", "ParsedInput", "ParsedDuration",
    "ParsedInputStream", "Log", "ParsedStreamMapping", "ParsedOutput",
    "ParsedOutputStream">>

\* C15: for the log of a job (version, configuration, an Input header with
\* its Duration line and a stream, the marker with one mapping entry, an
\* Output header with a stream) followed by lines of the running job, the
\* events come out one per line, in order, with the matching kinds; the
\* aggregate is complete exactly from the OutputStream event on;
\* collect_metadata succeeds; duration() is the parsed input duration; and
\* the sequence ends after the last line.
C15_JobLogEndToEnd ==
  /\ Len(yielded) = pos
  /\ \A k \in 1..pos :
       /\ LineOf(yielded[k]) = transcript[k]
       /\ k <= Len(JobLog) => yielded[k].kind = JobLogKinds[k]
       /\ (k > Len(JobLog) /\ transcript[k] # LinePlain) => yielded[k].kind = "Progress"
  /\ is_completed(metadata) <=> pos >= Len(JobLog)
  /\ collect_metadata \in {NotCalled, Running, Returned(metadata)}
  /\ collect_metadata = Running => pos < Len(JobLog)
  /\ is_completed(metadata) =>
       /\ duration(metadata) = [ret |-> "ok", value |-> Some(Seconds)]
       /\ yielded[4].duration.duration = Seconds
  /\ polled = Ready(None) => pos = Len(transcript)

\* C15 witness: the whole log and two Progress lines were consumed,
\* collect_metadata returned the aggregate, and the sequence ended.
C15_Witness ==
  /\ Len(yielded) = Len(JobLog) + 2
  /\ yielded[Len(JobLog) + 1].kind = "Progress"
  /\ yielded[Len(JobLog) + 2].kind = "Progress"
  /\ collect_metadata = Returned(metadata)
  /\ polled = Ready(None)

(***************************************************************************)
(* Properties of the adapter over a byte source, checked under SpecBytes.  *)
(***************************************************************************)
\* The line holds text after a carriage return.
TextAfterCR(line) ==
  \E i \in DOMAIN line : line[i] = CR /\ \E j \in (i + 1)..Len(line) : line[j] # CR

\* C5 (as claimed): a bare "\r" terminates a line, so the text before it and
\* the text after it are never classified as one line: no yielded event was
\* made from a line that holds text after a "\r".
C5_BareCRTerminatesLine ==
  \A k \in DOMAIN yielded : ~TextAfterCR(LineOf(yielded[k]))


\* The lines of a text that is all there: each ends at a line feed, which is
\* dropped with one carriage return before it, and the text after the last
\* line feed is a line when it is not empty.
RECURSIVE LinesOf(_)
LinesOf(text) ==
  IF text = <<>> THEN <<>>
  ELSE IF \A i \in DOMAIN text : text[i] # LF THEN <<text>>
  ELSE LET k == CHOOSE i \in DOMAIN text : text[i] = LF /\ \A j \in 1..(i - 1) : text[j] # LF
           line == SubSeq(text, 1, k - 1)
       IN  <<IF line # <<>> /\ Last(line) = CR THEN SubSeq(line, 1, Len(line) - 1) ELSE line>>
             \o LinesOf(SubSeq(text, k + 1, Len(text)))

\* The events poll_next yields for these lines, one poll after the other.
RECURSIVE EventsOf(_, _, _)
EventsOf(section, m, lines) ==
  IF lines = <<>> THEN <<>>
  ELSE LET r == poll_next(section, m, ReadLine(Head(lines)))
       IN  (IF r.polled.tag = "Ready" /\ r.polled.item # None
            THEN <<Unwrap(r.polled.item)>> ELSE <<>>)
             \o EventsOf(r.section, r.metadata, Tail(lines))

\* What the stream yields when every byte of the wire is there at once.
AllAtOnce == EventsOf(SectionOther, MetadataNew, LinesOf(Concat(wire)))

\* C37: however the chunks arrive and however often the source is polled
\* while it has no whole line, the events yielded so far are the first of
\* those the whole wire gives when read at once, and all of them once the
\* end is reported; a poll that returns Pending yields nothing and leaves
\* the section and the aggregate as they were.
C37_SuspensionTransparent ==
  /\ [](/\ IsPrefix(yielded, AllAtOnce)
        /\ polled = Ready(None) => yielded = AllAtOnce)
  /\ [][polled' = Pending =>
          /\ yielded' = yielded
          /\ cur_section' = cur_section
          /\ metadata' = metadata]_vars

\* C37 witness: a poll returned Pending with half a line read, and the half
\* is kept.
C37_Witness ==
  /\ polled = Pending
  /\ lines_bytes = LineProgressAt("5")
  /\ rd = 1 /\ Len(wire) >= 3 /\ wire[2] = LineProgressAt("10") /\ wire[3] = <<LF>>

\* the line of two chunks was yielded as one Progress event
C37_LineOfTwoChunks ==
  /\ yielded # <<>>
  /\ yielded[1].kind = "Progress"
  /\ yielded[1].raw = LineProgressAt("5") \o LineProgressAt("10")

(***************************************************************************)
(* Properties of the child, checked under SpecChild                        *)
(***************************************************************************)
Called(op) == child' # child /\ child'.call.op = op

StdinCommands == {"send_stdin_command", "quit"}

\* C21: a child gives at most one event stream.  stream() succeeds exactly
\* when stderr has not been taken; a successful stream() and a take_stderr()
\* both leave stderr taken, nothing brings it back, and so every stream()
\* that follows one of them fails with an error and makes no stream.
C21_AtMostOneStream ==
  [][/\ ~child.stderr => ~child'.stderr
     /\ Called("take_stderr") => ~child'.stderr
     /\ Called("stream") =>
          /\ child'.call.ret = "ok" <=> child.stderr
          /\ child'.call.ret = "ok" =>
               ~child'.stderr /\ child'.streams = child.streams + 1
          /\ child'.call.ret # "ok" =>
               /\ child'.call.ret = "err" /\ child'.call.msg = NoStderr
               /\ child'.streams = child.streams
     /\ child'.streams <= 1]_vars

\* a stream() that failed after a stream() that succeeded
C21_Witness ==
  /\ child.call.op = "stream" /\ child.call.ret = "err"
  /\ child.streams = 1

\* C26: once stdin is taken it stays taken, and take_stdin() takes it; a
\* send_stdin_command or quit that finds stdin taken fails with an error and
\* writes nothing; one that succeeds wrote its command and left the handle
\* in place, so the next command finds it.
C26_TakeStdinExcludesCommands ==
  [][/\ ~child.stdin => ~child'.stdin
     /\ Called("take_stdin") => ~child'.stdin
     /\ \A op \in StdinCommands :
          Called(op) =>
            /\ ~child.stdin =>
                 /\ child'.call.ret = "err" /\ child'.call.msg = MissingStdin
                 /\ child'.stdin_bytes = child.stdin_bytes
            /\ child'.call.ret = "ok" =>
                 /\ child.stdin /\ child'.stdin
                 /\ Len(child'.stdin_bytes) = Len(child.stdin_bytes) + 1
            /\ child.stdin =>
                 \/ child'.call.ret = "ok"
                 \/ child'.call.ret = "err" /\ child'.call.msg = WriteFailed]_vars

\* quit went through after an earlier command had gone through
C26_Witness ==
  /\ child.call.op = "quit" /\ child.call.ret = "ok"
  /\ child.stdin_bytes = <<"+", "q">>

\* a command refused because stdin had been taken by take_stdin()
C26_RefusedAfterTake ==
  /\ child.call.op \in StdinCommands /\ child.call.ret = "err"
  /\ child.call.msg = MissingStdin /\ child.stdin_bytes = <<>> /\ child.calls = 2


\* C38: a send_stdin_command or quit leaves stdin in place exactly when it
\* returned Ok.  One whose write failed returns the write's error and leaves
\* stdin taken; from then on stdin stays taken, every send_stdin_command and
\* quit fails with the missing-stdin error, and take_stdin() returns nothing.
C38_FailedWriteDropsStdin ==
  /\ [](child.call.op \in StdinCommands => (child.stdin <=> child.call.ret = "ok"))
  /\ [][/\ \A op \in StdinCommands :
            Called(op) =>
              /\ child.stdin /\ child'.call.ret = "err" =>
                   child'.call.msg = WriteFailed /\ ~child'.stdin
              /\ ~child.stdin =>
                   /\ child'.call.ret = "err" /\ child'.call.msg = MissingStdin
                   /\ ~child'.stdin
        /\ Called("take_stdin") =>
              (child'.call.ret = "some" <=> child.stdin) /\ ~child'.stdin
        /\ ~child.stdin => ~child'.stdin]_vars

\* a command whose write failed, the first call on the child, left stdin taken
C38_Witness ==
  /\ child.call.op \in StdinCommands /\ child.call.ret = "err"
  /\ child.call.msg = WriteFailed
  /\ ~child.stdin /\ child.calls = 1

(***************************************************************************)
(* Properties of the extractors and the parser, checked under SpecExtract  *)
(***************************************************************************)
AnyTag == Tags \cup {NoTag}

LevelName ==
  ("[info]" :> "Info") @@ ("[warning]" :> "Warning") @@ ("[error]" :> "Error") @@
  ("[fatal]" :> "Fatal") @@ (NoTag :> "Unknown")

VersionToken == <<"7.0">>
ConfigurationFlags == <<"--enable-gpl", "--enable-static">>

Extracted(fn, arg) == extracted.fn = fn /\ extracted.arg = arg

ParsedOk(event) == parsed = [ok |-> TRUE, event |-> event]

\* What the claim C22 says of the line `tag body`, for the tags in `stripped`.
VersionAndConfiguration(tag, stripped) ==
  /\ Extracted("try_parse_version", TaggedLine(tag, VersionBody)) =>
       extracted.result = IF tag \in stripped THEN Some(VersionToken) ELSE None
  /\ Extracted("try_parse_configuration", TaggedLine(tag, ConfigurationBody)) =>
       extracted.result = IF tag \in stripped THEN Some(ConfigurationFlags) ELSE None
  /\ Extracted("parse_next_event", TaggedLine(tag, VersionBody)) =>
       ParsedOk(IF tag \in stripped THEN ParsedVersion(extracted.arg)
                ELSE Log(LevelName[tag], extracted.arg))
  /\ Extracted("parse_next_event", TaggedLine(tag, ConfigurationBody)) =>
       ParsedOk(IF tag \in stripped THEN ParsedConfiguration(extracted.arg)
                ELSE Log(LevelName[tag], extracted.arg))

\* C22, as stated: the Version and Configuration extractors strip the leading
\* tag whichever it is, and the line yields a Version or Configuration event
\* for every tag and for no tag.
C22_StripsAnyTag == \A tag \in AnyTag : VersionAndConfiguration(tag, AnyTag)

\* C22, as the code has it: the extractors strip a leading [info] and no
\* other tag.  A line with [info] or with no tag yields the version token or
\* the flags and a Version or Configuration event; a line with [warning],
\* [error] or [fatal] yields no value and a Log event of that level.
C22_StripsInfoTagOnly == \A tag \in AnyTag : VersionAndConfiguration(tag, {NoTag, "[info]"})

C22_Witness ==
  /\ Extracted("try_parse_version", TaggedLine("[info]", VersionBody))
  /\ extracted.result = Some(VersionToken)

\* a version line tagged [warning] is not recognised
C22_WarningTagKept ==
  /\ Extracted("try_parse_version", TaggedLine("[warning]", VersionBody))
  /\ extracted.result = None


\* The line has none of the shapes the extractors look for, read in `section`.
MatchesNoExtractor(section, line) ==
  /\ try_parse_input(line) = None /\ try_parse_output(line) = None
  /\ try_parse_version(line) = None /\ try_parse_configuration(line) = None
  /\ try_parse_duration(line) = None
  /\ try_parse_stream(line) = None /\ try_parse_progress(line) = None
  /\ ~(/\ \E i \in 1..(Len(line) - 1) : line[i] = "  " /\ line[i + 1] = "Stream #"
       /\ (section = SectionStreamMapping \/ \E i \in DOMAIN line : line[i] = "Stream mapping:"))

Carries(line, marker) == \E i \in DOMAIN line : line[i] = marker

\* The level of the first of [info], [warning], [error], [fatal] the line holds.
MarkerLevel(line) ==
  CASE Carries(line, "[info]") -> "Info"
    [] ~Carries(line, "[info]") /\ Carries(line, "[warning]") -> "Warning"
    [] \A m \in {"[info]", "[warning]"} : ~Carries(line, m) /\ Carries(line, "[error]") -> "Error"
    [] (\A m \in {"[info]", "[warning]", "[error]"} : ~Carries(line, m))
         /\ Carries(line, "[fatal]") -> "Fatal"
    [] OTHER -> "Unknown"

\* An aggregate that is complete: one mapping entry, one output stream.
CompletedAggregate ==
  handle_event(handle_event(MetadataNew, ParsedStreamMapping(NoText)).metadata,
               ParsedOutputStream(FfmpegStream(0, 0, NoText))).metadata

\* C23: a line that matches no extractor yields, in every section, a Log
\* event with the line as its text and the level of the first marker it holds
\* in the order [info], [warning], [error], [fatal], Unknown when it holds
\* none; never an error; and the adapter passes the event on, whether its
\* aggregate is complete or not, so the sequence does not end.
C23_UnmatchedLineIsLog ==
  (extracted.fn = "parse_next_event"
     /\ MatchesNoExtractor(extracted.section, extracted.arg)) =>
    /\ ParsedOk(Log(MarkerLevel(extracted.arg), extracted.arg))
    /\ \A m \in {MetadataNew, CompletedAggregate} :
         poll_next(extracted.section, m, ReadLine(extracted.arg)).polled
           = Ready(Some(Log(MarkerLevel(extracted.arg), extracted.arg)))

\* a line that holds [warning] and then [info] is an Info log
C23_Witness ==
  /\ Extracted("parse_next_event", <<"[warning]", " ", "deprecated", " ", "[info]">>)
  /\ MatchesNoExtractor(extracted.section, extracted.arg)
  /\ ParsedOk(Log("Info", extracted.arg))

\* a line with no marker is an Unknown log
C23_UnknownLevel ==
  /\ Extracted("parse_next_event", LinePlain)
  /\ ParsedOk(Log("Unknown", LinePlain))


\* The component lists of the time tokens with lo to hi components.
Components(lo, hi) == UNION {[1..k -> TimeWords] : k \in lo..hi}

Numeric(c) == \A i \in DOMAIN c : c[i] \in DOMAIN NumOf

\* S + 60 * M + 3600 * H for the components [[H:]M:]S.
SecondsOf(c) ==
  LET n == Len(c)
  IN  NumOf[c[n]] + (IF n >= 2 THEN 60 * NumOf[c[n - 1]] ELSE 0)
                  + (IF n >= 3 THEN 3600 * NumOf[c[n - 2]] ELSE 0)

\* C24: for a token of one to three components, parse_time_str returns
\* S + 60 * M + 3600 * H when every component is a number and no value when
\* one is not (N/A); try_parse_duration does the same for the Duration line
\* that carries the token; and a Duration line whose token gives no value is
\* read, in every section, as an Info log: no Duration event, no error.
C24_TimeIsWeightedSum ==
  \A c \in Components(1, 3) :
    /\ Extracted("parse_time_str", JoinColon(c)) =>
         extracted.result = IF Numeric(c) THEN Some(SecondsOf(c)) ELSE None
    /\ Extracted("try_parse_duration", DurationLine(JoinColon(c))) =>
         extracted.result = IF Numeric(c) THEN Some(SecondsOf(c)) ELSE None
    /\ (Extracted("parse_next_event", DurationLine(JoinColon(c))) /\ ~Numeric(c)) =>
         ParsedOk(Log("Info", extracted.arg))

\* 1:01:05 is 3665 seconds
C24_Witness ==
  /\ Extracted("parse_time_str", <<"1", ":", "1", ":", "05">>)
  /\ extracted.result = Some(3665)

\* a Duration line with the time N/A read in an Input section
C24_DurationNALogged ==
  /\ Extracted("parse_next_event", DurationLine(<<"N/A">>))
  /\ extracted.section = SectionInput(0)
  /\ ParsedOk(Log("Info", extracted.arg))

\* C30: a time token of four or more components gives no value.
C30_FourComponentsNoValue ==
  \A c \in Components(4, MaxComponents) :
    Extracted("parse_time_str", JoinColon(c)) => extracted.result = None

\* What the code does with four components or more: the last three are read
\* and the ones before them are not looked at.
C30_LastThreeComponentsRead ==
  \A c \in Components(4, MaxComponents) :
    Extracted("parse_time_str", JoinColon(c)) =>
      extracted.result = parse_time_str(JoinColon(SubSeq(c, Len(c) - 2, Len(c))))

\* N/A:1:1:05 is read as 1:1:05
C30_LeadingComponentIgnored ==
  /\ Extracted("parse_time_str", <<"N/A", ":", "1", ":", "1", ":", "05">>)
  /\ extracted.result = Some(3665)


\* The fields a progress line of ProgressLine gives.
ProgressOf(size, bitrate, speed) ==
  [frame |-> 5, fps |-> 0, q |-> 0 - 1,
   size_kb |-> IF size = <<"N/A">> THEN 0 ELSE 10,
   time |-> <<"00:00:03.00">>,
   bitrate_kbps |-> IF bitrate = <<"N/A">> THEN 0 ELSE 3,
   speed |-> IF speed = <<"N/A">> THEN 0 ELSE 2,
   raw_log_message |-> ProgressLine(size, bitrate, speed)]

\* C25: try_parse_progress gives size_kb 10 for 10kB and for 10KiB, and 0 for
\* N/A; a bitrate or a speed of N/A gives 0 for that field; in each case the
\* other fields are parsed, the time is kept as written, and the line read by
\* the parser yields a Progress event with these fields.
C25_SizeUnitAndNA ==
  \A size \in SizeWords, bitrate \in BitrateWords, speed \in SpeedWords :
    /\ Extracted("try_parse_progress", ProgressLine(size, bitrate, speed)) =>
         extracted.result = Some(ProgressOf(size, bitrate, speed))
    /\ Extracted("parse_next_event", ProgressLine(size, bitrate, speed)) =>
         ParsedOk(Progress(ProgressOf(size, bitrate, speed)))

\* a line with the size in kB and the bitrate and speed N/A
C25_Witness ==
  /\ Extracted("try_parse_progress", ProgressLine(<<"10", "kB">>, <<"N/A">>, <<"N/A">>))
  /\ extracted.result # None
  /\ Unwrap(extracted.result).size_kb = 10
  /\ Unwrap(extracted.result).bitrate_kbps = 0 /\ Unwrap(extracted.result).speed = 0

\* a line with the size N/A
C25_SizeNA ==
  /\ Extracted("try_parse_progress", ProgressLine(<<"N/A">>, <<"3", "kbits/s">>, <<"2", "x">>))
  /\ extracted.result # None /\ Unwrap(extracted.result).size_kb = 0


(***************************************************************************)
(* Properties of the adapter from a progress line on, checked under        *)
(* SpecProgress                                                            *)
(***************************************************************************)
\* A line classified as Progress has been read, and no header since.
AfterProgress ==
  \E j \in 1..pos :
    /\ j \in DOMAIN yielded /\ yielded[j].kind = "Progress"
    /\ LineOf(yielded[j]) = transcript[j]
    /\ \A i \in (j + 1)..pos : ~IsHeader(transcript[i])

DurationLineRead == ReadsLine /\ try_parse_duration(transcript[pos']) # None
StreamLineRead == ReadsLine /\ try_parse_stream(transcript[pos']) # None

RefusedStream(line) == [ok |-> FALSE, msg |-> <<UnexpectedStream>> \o line]

\* C31 (as claimed): after a Progress line and until a header is read, a
\* Duration line is reported as a Log event and a stream-specification line
\* as an Error event.
C31_AfterProgressLogOrError ==
  [][AfterProgress =>
       /\ DurationLineRead =>
            /\ parsed' = Selected(Log("Info", transcript[pos']))
            /\ polled' = Ready(Some(Log("Info", transcript[pos'])))
       /\ StreamLineRead =>
            /\ parsed' = RefusedStream(transcript[pos'])
            /\ polled' = Ready(Some(Error(parsed'.msg)))]_vars

\* C31 (amended): a Progress line leaves the section Other; after it and
\* until a header is read the section is Other or StreamMapping, a Duration
\* line is reported as an Info Log event, and a stream-specification line as
\* an Error event unless the section in effect is StreamMapping (a marker
\* was read since, or the line holds it) and the line holds an indented
\* "Stream #", in which case it is reported as a StreamMappingEntry; never as
\* Duration, InputStream or OutputStream.
C31_AfterProgressNoDurationNoStream ==
  [][/\ (ReadsLine /\ parsed'.ok /\ parsed'.event.kind = "Progress") =>
          cur_section' = SectionOther
     /\ AfterProgress =>
          /\ cur_section.tag \in {"Other", "StreamMapping"}
          /\ DurationLineRead =>
               /\ parsed' = Selected(Log("Info", transcript[pos']))
               /\ polled' = Ready(Some(Log("Info", transcript[pos'])))
          /\ StreamLineRead =>
               IF /\ cur_section = SectionStreamMapping \/ HoldsMarker(transcript[pos'])
                  /\ \E i \in 1..(Len(transcript[pos']) - 1) :
                       transcript[pos'][i] = "  " /\ transcript[pos'][i + 1] = "Stream #"
               THEN parsed' = Selected(ParsedStreamMapping(transcript[pos']))
               ELSE /\ parsed' = RefusedStream(transcript[pos'])
                    /\ polled' = Ready(Some(Error(parsed'.msg)))]_vars

\* C31 witness: a stream specification right after the progress line was
\* refused.
C31_Witness ==
  /\ pos = 2 /\ Len(yielded) = 2
  /\ yielded[1].kind = "Progress"
  /\ parsed = RefusedStream(LineStream)
  /\ yielded[2] = Error(<<UnexpectedStream>> \o LineStream)

\* progress line, marker, stream specification: a StreamMappingEntry
C31_MappingEntryAfterProgress ==
  /\ pos = 3 /\ Len(yielded) = 3
  /\ yielded[1].kind = "Progress"
  /\ transcript[2] = LineMarker
  /\ yielded[3] = ParsedStreamMapping(LineStream)


(***************************************************************************)
(* Further properties of the adapter over a line source, checked under     *)
(* Spec                                                                    *)
(***************************************************************************)
\* A header with this index is among the lines read so far.
InputHeaderRead(n) == \E k \in 1..pos : try_parse_input(transcript[k]) = Some(n)
OutputHeaderRead(n) ==
  \E k \in 1..pos : /\ try_parse_input(transcript[k]) = None
                      /\ try_parse_output(transcript[k]) # None
                      /\ Unwrap(try_parse_output(transcript[k])).index = n

YieldsEvent == Len(yielded') = Len(yielded) + 1

\* C33: the adapter hands no event to a complete aggregate.  Every event
\* yielded is the event the parser classified, or, when the parser failed
\* (an unexpected stream specification or a read error), an Error event
\* carrying the parser's message; no Error event carries the aggregate's
\* "already completed" message; and a complete aggregate is the same after
\* every pull, which still yields the event of its line.
C33_NoAggregatorError ==
  [][/\ YieldsEvent =>
          /\ Last(yielded') = IF parsed'.ok THEN parsed'.event ELSE Error(parsed'.msg)
          /\ Last(yielded') # Error(AlreadyCompleted)
          /\ ~parsed'.ok =>
               \/ parsed'.msg = ReadErrMsg /\ transcript[pos'] = InvalidUtf8
               \/ parsed' = RefusedStream(transcript[pos'])
     /\ is_completed(metadata) =>
          /\ metadata' = metadata
          /\ ReadsLine => YieldsEvent]_vars

\* C33 witness: after completion an Input header was read; its event was
\* yielded and the aggregate did not take it.
C33_Witness ==
  /\ is_completed(metadata)
  /\ yielded # <<>> /\ Last(yielded).kind = "ParsedInput"
  /\ parsed = Selected(Last(yielded))
  /\ metadata.inputs = <<>>


\* C35: once a pull has reported the end of the sequence, every step leaves
\* the last report at "end", yields nothing and reads nothing; and a
\* collect_metadata call that runs on such a stream, its aggregate not being
\* complete, ends with an error at its first pull.
C35_EndIsSticky ==
  [][polled = Ready(None) =>
       /\ polled' = Ready(None)
       /\ yielded' = yielded /\ pos' = pos
       /\ metadata' = metadata
       /\ collect_metadata = Running => collect_metadata'.tag = "Err"
       /\ (collect_metadata = NotCalled /\ collect_metadata' # NotCalled) =>
            collect_metadata' = IF is_completed(metadata) THEN Returned(metadata)
                                ELSE Running]_vars

\* C35 witness: collect_metadata was called after the end had been reported
\* and returned the error; the Error event yielded before the call is not
\* in its message.
C35_Witness ==
  /\ polled = Ready(None)
  /\ ~is_completed(metadata)
  /\ \E k \in DOMAIN yielded : yielded[k].kind = "Error"
  /\ collect_metadata = Bailed(<<>>)


\* This step is the call of collect_metadata.
CollectCalled == collect_metadata = NotCalled /\ collect_metadata' # NotCalled

\* C36: while collect_metadata runs its aggregate is not complete; it
\* returns at the pull whose event completes the aggregate, having read that
\* line and none after it, and keeps none of the events it pulled; called
\* on a complete aggregate it returns at once and reads nothing; and the
\* pull that follows its return reads the next line and yields the
\* event of that line.
C36_NoReadAhead ==
  /\ [](collect_metadata = Running => ~is_completed(metadata))
  /\ [][/\ (collect_metadata = Running /\ collect_metadata'.tag = "Ok") =>
             /\ is_completed(metadata')
             /\ collect_metadata' = Returned(metadata')
             /\ pos' = pos + 1
             /\ event_queue' = <<>>
        /\ (CollectCalled /\ is_completed(metadata)) =>
             /\ collect_metadata' = Returned(metadata)
             /\ pos' = pos /\ yielded' = yielded /\ polled' = polled
        /\ (collect_metadata.tag = "Ok" /\ ReadsLine) =>
             /\ YieldsEvent
             /\ SubSeq(yielded', 1, Len(yielded)) = yielded
             /\ Last(yielded') = IF parsed'.ok THEN parsed'.event ELSE Error(parsed'.msg)
             /\ LineOf(Last(yielded')) = transcript[pos']
             /\ collect_metadata' = collect_metadata]_vars

\* C36 witness: collect_metadata has returned the aggregate the fourth line
\* completed, and the next pull yielded the event of the fifth line.
C36_Witness ==
  /\ collect_metadata.tag = "Ok"
  /\ Len(collect_metadata.metadata.output_streams) = 1
  /\ pos = 5 /\ Len(yielded) = 5
  /\ transcript[5] = LineProgress
  /\ yielded[4].kind = "ParsedOutputStream"
  /\ yielded[5].kind = "Progress" /\ yielded[5].raw = LineProgress

====
